---- MODULE Spec2Model ----
(***************************************************************************)
(* Model of the FileSystem MCP server (src/app.py): path normalization,    *)
(* the allow-list guard, and the gateway operations init, list_directory,  *)
(* read_file, read_file_binary, list_resources and get_resource.           *)
(*                                                                         *)
(* A path is a sequence of one-character strings, so that the string       *)
(* operations of the code (replace, startswith, split, lower, splitext)    *)
(* are computed character by character.  The host is a POSIX platform      *)
(* (os.name = "posix", os.sep = "/") except in CaseSpec, which also runs   *)
(* the guard on a Windows host (os.name = "nt").                           *)
(***************************************************************************)
EXTENDS Integers, Sequences, FiniteSets, TLC

VARIABLES
    os_name,            \* os.name of the host
    fs,                 \* the filesystem of the host
    cwd,                \* os.getcwd() of the server process
    allowed_dirs,       \* module global allowed_dirs (app.py:218)
    allowed_extensions, \* module global allowed_extensions (app.py:218)
    call                \* the last call made and what it returned

\* the host, which no operation of the server changes
host == <<os_name, fs>>

vars == <<os_name, fs, cwd, allowed_dirs, allowed_extensions, call>>

----------------------------------------------------------------------------
(* Bounds of the model                                                     *)

\* longest caller-supplied string enumerated for the pure path functions
MaxLen == 5
\* largest batch_size a caller passes
MaxBatch == 3
\* number of callers whose calls are served at the same time
MaxCallers == 2
\* the deepest directory a step-by-step walk reads, in path segments
MaxDepth == 4
\* the number of entries of the largest directory listed
MaxEntries == 20001
\* the number of entries of a directory in which processed/total*100 falls
\* halfway between two hundredths (23 of 160 is 14.375)
MidEntries == 160
\* a loop over a directory of more entries is followed this many iterations
MaxSteps == 23

----------------------------------------------------------------------------
(* Strings                                                                 *)

SLASH == "/"
BACKSLASH == "\\"
DOT == "."

UpperChars == <<"A","B","C","D","E","F","G","H","I","J","K","L","M",
                "N","O","P","Q","R","S","T","U","V","W","X","Y","Z">>
LowerChars == <<"a","b","c","d","e","f","g","h","i","j","k","l","m",
                "n","o","p","q","r","s","t","u","v","w","x","y","z">>

\* str.lower() on one character
LowerChar(c) ==
    IF \E i \in 1..Len(UpperChars) : UpperChars[i] = c
    THEN LowerChars[CHOOSE i \in 1..Len(UpperChars) : UpperChars[i] = c]
    ELSE c

\* str.lower()
Lower(s) == [i \in 1..Len(s) |-> LowerChar(s[i])]

\* Op applied to value: LET name == value IN ..., with the value worked out
\* once for all the places that name it
With(value, Op(_)) == Op(value)

\* str.replace(from, to) for one-character from and to
Replace(s, from, to) == [i \in 1..Len(s) |-> IF s[i] = from THEN to ELSE s[i]]

\* str.startswith(p)
StartsWith(s, p) == Len(p) <= Len(s) /\ SubSeq(s, 1, Len(p)) = p

\* str.endswith(c) for one character
EndsWithChar(s, c) == Len(s) > 0 /\ s[Len(s)] = c

\* str.rfind(c): the highest 1-based index of c in s, 0 when absent
\* (Python's value plus one)
RFind(s, c) ==
    IF \E i \in 1..Len(s) : s[i] = c
    THEN CHOOSE i \in 1..Len(s) : s[i] = c /\ \A j \in (i+1)..Len(s) : s[j] # c
    ELSE 0

\* str.split(sep): the pieces between occurrences of sep; never empty
RECURSIVE SplitFrom(_, _, _, _)
SplitFrom(s, sep, i, cur) ==
    IF i > Len(s) THEN <<cur>>
    ELSE IF s[i] = sep THEN <<cur>> \o SplitFrom(s, sep, i + 1, <<>>)
    ELSE SplitFrom(s, sep, i + 1, Append(cur, s[i]))

Split(s, sep) == SplitFrom(s, sep, 1, <<>>)

\* sep.join(comps)
RECURSIVE JoinWith(_, _)
JoinWith(comps, sep) ==
    IF Len(comps) = 0 THEN <<>>
    ELSE IF Len(comps) = 1 THEN comps[1]
    ELSE comps[1] \o <<sep>> \o JoinWith(Tail(comps), sep)

----------------------------------------------------------------------------
(* os.path on POSIX, as used by normalize_path                             *)

DOTDOT == <<DOT, DOT>>

\* posixpath.normpath: the loop over the components
RECURSIVE NormComps(_, _, _)
NormComps(comps, initial_slashes, new_comps) ==
    IF Len(comps) = 0 THEN new_comps
    ELSE LET comp == Head(comps)
             rest == Tail(comps)
         IN  IF comp = <<>> \/ comp = <<DOT>>
             THEN NormComps(rest, initial_slashes, new_comps)
             ELSE IF \/ comp # DOTDOT
                     \/ (initial_slashes = 0 /\ Len(new_comps) = 0)
                     \/ (Len(new_comps) > 0 /\ new_comps[Len(new_comps)] = DOTDOT)
             THEN NormComps(rest, initial_slashes, Append(new_comps, comp))
             ELSE IF Len(new_comps) > 0
             THEN NormComps(rest, initial_slashes,
                            SubSeq(new_comps, 1, Len(new_comps) - 1))
             ELSE NormComps(rest, initial_slashes, new_comps)

\* posixpath.normpath: how many leading slashes are kept (0, 1 or 2)
InitialSlashes(path) ==
    IF ~StartsWith(path, <<SLASH>>) THEN 0
    ELSE IF StartsWith(path, <<SLASH, SLASH>>)
            /\ ~StartsWith(path, <<SLASH, SLASH, SLASH>>) THEN 2
    ELSE 1

\* posixpath.normpath
normpath(path) ==
    IF path = <<>> THEN <<DOT>>
    ELSE LET n == InitialSlashes(path)
             body == JoinWith(NormComps(Split(path, SLASH), n, <<>>), SLASH)
             out == [i \in 1..n |-> SLASH] \o body
         IN  IF out = <<>> THEN <<DOT>> ELSE out

\* posixpath.join(a, b)
join(a, b) ==
    IF StartsWith(b, <<SLASH>>) THEN b
    ELSE IF a = <<>> \/ EndsWithChar(a, SLASH) THEN a \o b
    ELSE a \o <<SLASH>> \o b

\* posixpath.abspath(path) in a process whose working directory is dir
abspath(path, dir) ==
    IF StartsWith(path, <<SLASH>>) THEN normpath(path)
    ELSE normpath(join(dir, path))

\* posixpath.basename(p)
basename(p) == SubSeq(p, RFind(p, SLASH) + 1, Len(p))

\* posixpath.dirname(p)
dirname(p) ==
    LET head == SubSeq(p, 1, RFind(p, SLASH))
    IN  IF head # <<>> /\ \E k \in 1..Len(head) : head[k] # SLASH
        THEN SubSeq(head, 1, CHOOSE k \in 1..Len(head) :
                                /\ head[k] # SLASH
                                /\ \A j \in (k + 1)..Len(head) : head[j] = SLASH)
        ELSE head

\* the names between the separators of a normalized path
RECURSIVE NonEmpty(_)
NonEmpty(comps) ==
    IF Len(comps) = 0 THEN <<>>
    ELSE (IF Head(comps) = <<>> THEN <<>> ELSE <<Head(comps)>>)
         \o NonEmpty(Tail(comps))

Segments(p) == NonEmpty(Split(p, SLASH))

\* the loop of genericpath._splitext: some character of s at lo..hi-1 is
\* not a dot, so the last dot does not belong to the leading dots of the name
HasNonDot(s, lo, hi) == \E k \in lo..(hi - 1) : s[k] # DOT

\* posixpath.splitext(p)[1]
splitext_ext(p) ==
    LET sepIndex == RFind(p, SLASH)
        dotIndex == RFind(p, DOT)
    IN  IF dotIndex > sepIndex /\ HasNonDot(p, sepIndex + 1, dotIndex)
        THEN SubSeq(p, dotIndex, Len(p))
        ELSE <<>>

----------------------------------------------------------------------------
(* os.path on Windows (ntpath), as used by normalize_path when os.name is  *)
(* "nt": drive-letter paths, UNC and device paths, and the full path name  *)
(* the system gives.  Every drive but that of the working directory has    *)
(* its root as current directory.                                          *)

COLON == ":"
SPACE == " "
QUESTION == "?"

\* s.find(c, start): the lowest 1-based index of c in s from position start
\* on, 0 when absent (Python's value plus one)
RECURSIVE Find(_, _, _)
Find(s, c, start) ==
    IF start > Len(s) THEN 0
    ELSE IF s[start] = c THEN start
    ELSE Find(s, c, start + 1)

\* s.rstrip(chars)
RECURSIVE RStrip(_, _)
RStrip(s, chars) ==
    IF Len(s) > 0 /\ s[Len(s)] \in chars
    THEN RStrip(SubSeq(s, 1, Len(s) - 1), chars)
    ELSE s

\* normp[:8].upper() == unc_prefix of ntpath.splitdrive, for a path that
\* begins with two backslashes: the prefix \\?\UNC\ in any letter case
HasUncPrefix(normp) ==
    /\ Len(normp) >= 8
    /\ normp[3] = QUESTION
    /\ normp[4] = BACKSLASH
    /\ normp[5] \in {"U", "u"}
    /\ normp[6] \in {"N", "n"}
    /\ normp[7] \in {"C", "c"}
    /\ normp[8] = BACKSLASH

\* ntpath.splitdrive of a UNC or device path: index2 is where the separator
\* behind the share stands (0: there is none)
ShareEnd(normp, index2) == IF index2 = 0 THEN Len(normp) ELSE index2 - 1

\* ntpath.splitdrive of a UNC or device path: index is where the separator
\* behind the server stands (0: there is none)
UncDriveEnd(normp, index) ==
    IF index = 0 THEN Len(normp)
    ELSE ShareEnd(normp, Find(normp, BACKSLASH, index + 1))

\* ntpath.splitdrive on normp, the path with its separators unified
DriveEnd(normp) ==
    IF normp[1] = BACKSLASH /\ normp[2] = BACKSLASH
    THEN UncDriveEnd(normp, Find(normp, BACKSLASH,
                                 IF HasUncPrefix(normp) THEN 9 ELSE 3))
    ELSE IF normp[2] = COLON THEN 2
    ELSE 0

\* len(ntpath.splitdrive(p)[0]): two characters of a drive-letter path; of
\* a path that begins with two separators everything before the separator
\* that follows the share (the fourth, the sixth behind \\?\UNC\), or all of
\* it when there is no such separator
nt_drive_end(p) ==
    IF Len(p) < 2 THEN 0 ELSE DriveEnd(Replace(p, SLASH, BACKSLASH))

\* p[0] in "\\/"
nt_rooted(p) == Len(p) > 0 /\ p[1] \in {SLASH, BACKSLASH}

\* the end of ntpath.join: a separator between a UNC drive and a path that
\* is not rooted
JoinResult(result_drive, result_path) ==
    IF /\ result_path # <<>>
       /\ ~nt_rooted(result_path)
       /\ result_drive # <<>>
       /\ result_drive[Len(result_drive)] # COLON
    THEN result_drive \o <<BACKSLASH>> \o result_path
    ELSE result_drive \o result_path

\* the loop body of ntpath.join on the split paths
JoinSplit(result_drive, result_path, p_drive, p_path) ==
    IF nt_rooted(p_path)
    THEN JoinResult(IF p_drive # <<>> \/ result_drive = <<>>
                    THEN p_drive ELSE result_drive, p_path)
    ELSE IF p_drive # <<>> /\ Lower(p_drive) # Lower(result_drive)
    THEN JoinResult(p_drive, p_path)
    ELSE JoinResult(IF p_drive # <<>> THEN p_drive ELSE result_drive,
                    (IF result_path # <<>>
                        /\ result_path[Len(result_path)] \notin {SLASH, BACKSLASH}
                     THEN result_path \o <<BACKSLASH>> ELSE result_path)
                    \o p_path)

\* ntpath.join(path, p), each path with the length of its drive
JoinAt(path, path_end, p, p_end) ==
    JoinSplit(SubSeq(path, 1, path_end), SubSeq(path, path_end + 1, Len(path)),
              SubSeq(p, 1, p_end), SubSeq(p, p_end + 1, Len(p)))

\* ntpath.join(path, p)
nt_join(path, p) == JoinAt(path, nt_drive_end(path), p, nt_drive_end(p))

\* the end of ntpath.normpath: "." for an empty result
NormResult(prefix, comps) ==
    IF prefix = <<>> /\ comps = <<>> THEN <<DOT>>
    ELSE prefix \o JoinWith(comps, BACKSLASH)

\* ntpath.normpath on the split path
NormSplit(drive, tail) ==
    NormResult(drive \o (IF nt_rooted(tail) THEN <<BACKSLASH>> ELSE <<>>),
               NormComps(Split(tail, BACKSLASH),
                         IF nt_rooted(tail) THEN 1 ELSE 0, <<>>))

\* ntpath.normpath on p, the path with its separators unified, whose drive
\* has drive_end characters
NormAt(p, drive_end) ==
    NormSplit(SubSeq(p, 1, drive_end), SubSeq(p, drive_end + 1, Len(p)))

\* ntpath.normpath(path)
nt_normpath(path) == NormAt(Replace(path, SLASH, BACKSLASH), nt_drive_end(path))

\* the names Windows reserves for devices in every directory
DosDevices ==
    {<<"n","u","l">>, <<"c","o","n">>, <<"a","u","x">>, <<"p","r","n">>}
    \cup {<<"c","o","m",d>> : d \in {"1","2","3","4","5","6","7","8","9"}}
    \cup {<<"l","p","t",d>> : d \in {"1","2","3","4","5","6","7","8","9"}}

\* a name inside a full path name: one that ends in a single period loses
\* that period
TrimName(name) ==
    IF /\ Len(name) >= 2
       /\ name[Len(name)] = DOT
       /\ name[Len(name) - 1] # DOT
    THEN SubSeq(name, 1, Len(name) - 1)
    ELSE name

\* the names of a full path name but the last, each without its single
\* trailing period
TrimNames(comps) ==
    [i \in 1..Len(comps) |-> IF i < Len(comps) THEN TrimName(comps[i]) ELSE comps[i]]

\* s with every run of backslashes made one backslash
RECURSIVE Collapse(_)
Collapse(s) ==
    IF Len(s) < 2 THEN s
    ELSE IF s[1] = BACKSLASH /\ s[2] = BACKSLASH THEN Collapse(Tail(s))
    ELSE <<s[1]>> \o Collapse(Tail(s))

\* the full path name of a located path whose drive has drive_end
\* characters: the names behind the drive lose a single trailing period,
\* the last name all its trailing periods and spaces
TrimPath(located, drive_end) ==
    RStrip(SubSeq(located, 1, drive_end)
           \o JoinWith(TrimNames(Split(SubSeq(located, drive_end + 1, Len(located)),
                                       BACKSLASH)), BACKSLASH),
           {DOT, SPACE})

\* the full path name: the device path \\.\name when the last name of the
\* path, without its trailing periods and spaces, is a device name
DeviceOr(last, full) ==
    IF Lower(last) \in DosDevices
    THEN <<BACKSLASH, BACKSLASH, DOT, BACKSLASH>> \o last
    ELSE full

\* the path drive \o tail in a process whose working directory is
\* cwd_drive \o cwd_tail: a relative path is taken from the working
\* directory, one on another drive from the root of that drive, and a
\* rooted path without a drive gets cwd_drive
Located(drive, tail, cwd_drive, cwd_tail) ==
    nt_normpath(IF /\ drive # <<>>
                   /\ ~nt_rooted(tail)
                   /\ Lower(drive) # Lower(cwd_drive)
                THEN drive \o <<BACKSLASH>> \o tail
                ELSE JoinSplit(cwd_drive, cwd_tail, drive, tail))

\* GetFullPathNameW on the path drive \o tail that does not begin with two
\* separators
FullPathName(drive, tail, cwd_drive, cwd_tail) ==
    DeviceOr(RStrip(SubSeq(tail, RFind(tail, BACKSLASH) + 1, Len(tail)),
                    {DOT, SPACE}),
             TrimPath(Located(drive, tail, cwd_drive, cwd_tail),
                      IF drive # <<>> THEN Len(drive) ELSE Len(cwd_drive)))

\* nt._getfullpathname(name) for a path that ntpath.normpath has returned
\* and that has lost its trailing spaces, in a process whose working
\* directory is dir; drive_end and cwd_end are the lengths of the drives of
\* name and dir.  A path that begins with two separators is not located
\* again: the separators that ntpath.normpath leaves doubled inside it are
\* made one, and the trailing periods and spaces go.
FullPathAt(name, drive_end, dir, cwd_end) ==
    IF StartsWith(name, <<BACKSLASH, BACKSLASH>>)
    THEN RStrip(<<BACKSLASH>> \o Collapse(Tail(name)), {DOT, SPACE})
    ELSE FullPathName(SubSeq(name, 1, drive_end),
                      SubSeq(name, drive_end + 1, Len(name)),
                      SubSeq(dir, 1, cwd_end), SubSeq(dir, cwd_end + 1, Len(dir)))

\* nt._getfullpathname(path) for a path that ntpath.normpath has returned,
\* in a process whose working directory is dir: GetFullPathNameW.  Trailing
\* spaces are dropped; a last name that is a device name gives the device
\* path \\.\name; a relative path is taken from the current directory of
\* its drive and a rooted path without a drive gets the drive of dir; the
\* trailing periods and spaces of the last name are dropped.  Device names
\* followed by an extension or a colon are taken as plain names.
nt_getfullpathname(path, dir) ==
    FullPathAt(RStrip(path, {SPACE}), nt_drive_end(RStrip(path, {SPACE})),
               dir, nt_drive_end(dir))

\* ntpath.isabs(s)
nt_isabs(s) ==
    \/ nt_rooted(s)
    \/ Len(s) >= 3 /\ s[2] = COLON /\ s[3] \in {SLASH, BACKSLASH}

\* ntpath._abspath_fallback(path) in a process whose working directory is
\* dir
nt_abspath_fallback(path, dir) ==
    nt_normpath(IF nt_isabs(path) THEN path ELSE nt_join(dir, path))

\* nt._getfullpathname(path) raises OSError: nothing is left of the name
\* once its trailing spaces are gone
nt_getfullpathname_fails(path) == RStrip(path, {SPACE}) = <<>>

\* ntpath.abspath after normpath: nt._getfullpathname(normalized), and
\* _abspath_fallback(path) when that raises OSError
AbsPathOf(path, normalized, dir) ==
    IF nt_getfullpathname_fails(normalized)
    THEN nt_abspath_fallback(path, dir)
    ELSE nt_getfullpathname(normalized, dir)

\* ntpath.abspath(path) on a Windows host, in a process whose working
\* directory is dir.  (On hosts without nt._getfullpathname ntpath.abspath
\* is _abspath_fallback, which leaves a rooted path without a drive as it
\* is.)
nt_abspath(path, dir) == AbsPathOf(path, nt_normpath(path), dir)

\* os.path.abspath of the host
os_abspath(path, dir) ==
    IF os_name = "nt" THEN nt_abspath(path, dir) ELSE abspath(path, dir)

----------------------------------------------------------------------------
(* normalize_path (app.py:19-44)                                           *)

\* normalize_path without the first replacement: the backslashes are only
\* unified after the path has been resolved
normalize_in_ResolveFirst(path, dir) ==
    Replace(os_abspath(path, dir), BACKSLASH, SLASH)

\* normalize_path with the working directory made explicit
normalize_in(path, dir) ==
    LET normalized == Replace(path, BACKSLASH, SLASH)
        abs_path == os_abspath(normalized, dir)
    IN  Replace(abs_path, BACKSLASH, SLASH)

normalize_path(path) == normalize_in(path, cwd)

----------------------------------------------------------------------------
(* is_allowed_path (app.py:220-240)                                        *)

\* the test of one configured root as an equality test: only the roots
\* themselves match
MatchesRoot_ExactOnly(normalized_path, allowed) ==
    IF os_name = "nt"
    THEN Lower(normalized_path) = Lower(allowed)
    ELSE normalized_path = allowed

\* the test of one configured root without the branch on os.name: the
\* strings are compared as they are on every host
MatchesRoot_NeverFolds(normalized_path, allowed) ==
    StartsWith(normalized_path, allowed)

\* the test of one configured root inside the loop of is_allowed_path
MatchesRoot(normalized_path, allowed) ==
    IF os_name = "nt"
    THEN StartsWith(Lower(normalized_path), Lower(allowed))
    ELSE StartsWith(normalized_path, allowed)

\* is_allowed_path over an explicit root list and working directory
is_allowed_in(path, dirs, dir) ==
    IF Len(dirs) = 0 THEN FALSE
    ELSE LET normalized_path == normalize_in(path, dir)
         IN  \E i \in 1..Len(dirs) : MatchesRoot(normalized_path, dirs[i])

is_allowed_path(path) == is_allowed_in(path, allowed_dirs, cwd)

----------------------------------------------------------------------------
(* The filesystem the server runs on.  It is not changed by any operation  *)
(* of the server.  Each entry names its parent directory and its own name; *)
(* the order of the entries is the order in which the directory-read       *)
(* primitive (os.listdir, os.scandir) reports them.                        *)

P_root == <<"/">>
P_data == <<"/","d","a","t","a">>
P_sub == P_data \o <<"/","s","u","b">>
P_deep == P_sub \o <<"/","d","e","e","p">>
P_database == <<"/","d","a","t","a","b","a","s","e">>
P_other == <<"/","o","t","h","e","r">>
P_priv == P_other \o <<"/","p","r","i","v">>
P_back == P_other \o <<"/","b","a","c","k">>

N_a_txt == <<"a",".","t","x","t">>
N_a_bin == <<"a",".","b","i","n">>
N_n_TXT == <<"n",".","T","X","T">>
N_s_txt == <<"s",".","t","x","t">>
N_locked == <<"l",".","t","x","t">>
N_x_txt == <<"x",".","t","x","t">>
N_pipe == <<"p","i","p","e">>

\* bytes of the files: "hi", three bytes that are not text, "a\r\nb", "key"
B_hi == <<104, 105>>
B_bin == <<0, 255, 16, 128>>
B_crlf == <<97, 13, 10, 98>>
B_key == <<107, 101, 121>>

Dir(parent, name) ==
    [parent |-> parent, name |-> name, kind |-> "dir", bytes |-> <<>>,
     readable |-> TRUE, target |-> <<>>]
File(parent, name, bytes, readable) ==
    [parent |-> parent, name |-> name, kind |-> "file", bytes |-> bytes,
     readable |-> readable, target |-> <<>>]
\* a directory of mode 000: it can be neither listed nor searched
LockedDir(parent, name) ==
    [parent |-> parent, name |-> name, kind |-> "dir", bytes |-> <<>>,
     readable |-> FALSE, target |-> <<>>]
\* a named pipe: it exists and is neither a directory nor a regular file
Fifo(parent, name) ==
    [parent |-> parent, name |-> name, kind |-> "fifo", bytes |-> <<>>,
     readable |-> TRUE, target |-> <<>>]
\* a symbolic link to the absolute, link-free path target
Link(parent, name, target) ==
    [parent |-> parent, name |-> name, kind |-> "link", bytes |-> <<>>,
     readable |-> TRUE, target |-> target]

FS == <<
    Dir(P_root, Tail(P_data)),
    Dir(P_root, Tail(P_database)),
    Dir(P_root, Tail(P_other)),
    File(P_data, N_a_txt, B_hi, TRUE),
    File(P_data, N_a_bin, B_bin, TRUE),
    Dir(P_data, <<"s","u","b">>),
    File(P_data, N_locked, B_key, FALSE),
    File(P_sub, N_n_TXT, B_crlf, TRUE),
    Dir(P_sub, <<"d","e","e","p">>),
    File(P_database, N_s_txt, B_key, TRUE),
    File(P_other, N_a_txt, B_hi, TRUE),
    LockedDir(P_other, Tail(SubSeq(P_priv, Len(P_other) + 1, Len(P_priv)))),
    File(P_priv, N_x_txt, B_hi, TRUE),
    Fifo(P_other, N_pipe),
    Link(P_other, Tail(SubSeq(P_back, Len(P_other) + 1, Len(P_back))), P_other)
>>

EntryPath(e) == join(e.parent, e.name)

\* the index in fs of the entry recorded under the name p itself, a link not
\* being followed; 0 when there is none
NodeIndex(p) ==
    IF \E i \in 1..Len(fs) : EntryPath(fs[i]) = p
    THEN CHOOSE i \in 1..Len(fs) : EntryPath(fs[i]) = p
    ELSE 0

\* the top directory, and what a failing os.stat or os.lstat stands for
RootEntry == Dir(<<>>, P_root)
NoEntry ==
    [parent |-> <<>>, name |-> <<>>, kind |-> "none", bytes |-> <<>>,
     readable |-> FALSE, target |-> <<>>]

\* whether q is a directory that grants search permission
IsOpenDir(q) ==
    \E i \in 1..Len(fs) :
        EntryPath(fs[i]) = q /\ fs[i].kind = "dir" /\ fs[i].readable

\* whether the entries of the link-free directory d can be looked up: d and
\* every directory above it grant search permission
Searchable(d) ==
    \A k \in 2..Len(d) :
        (k = Len(d) \/ d[k + 1] = SLASH) => IsOpenDir(SubSeq(d, 1, k))

\* path p with the link fs[i] it leads through replaced by the target; what
\* follows a link to the top directory starts at the top directory
Retarget(p, i) ==
    LET below == SubSeq(p, Len(EntryPath(fs[i])) + 1, Len(p))
    IN  IF fs[i].target = P_root /\ below # <<>> THEN below
        ELSE fs[i].target \o below

\* whether path p leads through the symbolic link fs[i], or ends at it
ThroughLink(p, i) ==
    /\ fs[i].kind = "link"
    /\ p = EntryPath(fs[i]) \/ StartsWith(p, EntryPath(fs[i]) \o <<SLASH>>)
    /\ Searchable(fs[i].parent)

\* path resolution as the system calls do it: two slashes at the front
\* (which normpath keeps) stand for the top directory, and a symbolic link
\* on the way is replaced by its target, until no link is left
RECURSIVE Resolve(_)
Resolve(p) ==
    IF Len(p) >= 2 /\ p[1] = SLASH /\ p[2] = SLASH
    THEN Resolve(Tail(p))
    ELSE IF \E i \in 1..Len(fs) : ThroughLink(p, i)
    THEN Resolve(Retarget(p, CHOOSE i \in 1..Len(fs) : ThroughLink(p, i)))
    ELSE p

\* os.lstat on the link-free path r
Lstat(r) ==
    IF r = P_root THEN RootEntry
    ELSE IF NodeIndex(r) # 0 /\ Searchable(dirname(r)) THEN fs[NodeIndex(r)]
    ELSE NoEntry

\* the entry os.stat(p) reports (links followed)
EntryAt(p) == Lstat(Resolve(p))

\* whether os.stat(p) succeeds
Visible(p) == EntryAt(p).kind # "none"

\* os.path.exists, os.path.isdir, os.path.isfile on a normalized path: a
\* failing os.stat makes each of them False
exists(p) == Visible(p)
isdir(p) == EntryAt(p).kind = "dir"
isfile(p) == EntryAt(p).kind = "file"

\* os.path.islink(p): os.lstat(p) succeeds and reports a symbolic link
islink(p) == Lstat(join(Resolve(dirname(p)), basename(p))).kind = "link"

\* whether opening the file, or reading the directory, raises PermissionError
CanRead(p) == EntryAt(p).readable

\* the entries of directory p, in directory order
RECURSIVE ChildrenFrom(_, _)
ChildrenFrom(p, i) ==
    IF i > Len(fs) THEN <<>>
    ELSE IF fs[i].parent = p THEN <<fs[i]>> \o ChildrenFrom(p, i + 1)
    ELSE ChildrenFrom(p, i + 1)

Children(p) == ChildrenFrom(Resolve(p), 1)

\* os.listdir(p) of a readable directory: the names of its entries
listdir(p) == [i \in 1..Len(Children(p)) |-> Children(p)[i].name]

\* DirEntry.is_dir() of an entry of os.scandir: links are followed
IsDirEntry(e) == isdir(EntryPath(e))

\* the subsequence of s whose elements are directories, or links to one
RECURSIVE DirEntries(_)
DirEntries(s) ==
    IF Len(s) = 0 THEN <<>>
    ELSE IF IsDirEntry(Head(s)) THEN <<Head(s)>> \o DirEntries(Tail(s))
    ELSE DirEntries(Tail(s))

\* the subsequence of s whose elements are not directories
RECURSIVE NonDirs(_)
NonDirs(s) ==
    IF Len(s) = 0 THEN <<>>
    ELSE IF ~IsDirEntry(Head(s)) THEN <<Head(s)>> \o NonDirs(Tail(s))
    ELSE NonDirs(Tail(s))

----------------------------------------------------------------------------
(* Reading file content                                                    *)

\* U+FFFD, what errors='replace' puts in place of an undecodable byte
REPLACEMENT_CHARACTER == 65533

\* bytes.decode('utf-8', errors='replace') for byte strings made of ASCII
\* bytes, lone continuation bytes (128..191) and bytes that never occur in
\* UTF-8 (192, 193, 245..255): every such byte that is not ASCII is one
\* undecodable sequence of its own.  The files of fs hold no other bytes.
decode_utf8_replace(bytes) ==
    [i \in 1..Len(bytes) |->
        IF bytes[i] < 128 THEN bytes[i] ELSE REPLACEMENT_CHARACTER]

\* universal-newline translation of a file opened in text mode with
\* newline=None: "\r\n" and "\r" are read as "\n"
RECURSIVE translate_newlines(_)
translate_newlines(text) ==
    IF Len(text) = 0 THEN <<>>
    ELSE IF text[1] = 13
    THEN IF Len(text) > 1 /\ text[2] = 10
         THEN <<10>> \o translate_newlines(SubSeq(text, 3, Len(text)))
         ELSE <<10>> \o translate_newlines(Tail(text))
    ELSE <<text[1]>> \o translate_newlines(Tail(text))

\* open(p, 'r', encoding='utf-8', errors='replace').read(), as code points
read_text(bytes) == translate_newlines(decode_utf8_replace(bytes))

B64Chars == <<"A","B","C","D","E","F","G","H","I","J","K","L","M",
              "N","O","P","Q","R","S","T","U","V","W","X","Y","Z",
              "a","b","c","d","e","f","g","h","i","j","k","l","m",
              "n","o","p","q","r","s","t","u","v","w","x","y","z",
              "0","1","2","3","4","5","6","7","8","9","+","/">>
B64Pad == "="

\* base64.b64encode(data).decode('ascii')
RECURSIVE b64encode(_)
b64encode(data) ==
    IF Len(data) = 0 THEN <<>>
    ELSE IF Len(data) = 1
    THEN <<B64Chars[(data[1] \div 4) + 1],
           B64Chars[((data[1] % 4) * 16) + 1], B64Pad, B64Pad>>
    ELSE IF Len(data) = 2
    THEN <<B64Chars[(data[1] \div 4) + 1],
           B64Chars[((data[1] % 4) * 16 + (data[2] \div 16)) + 1],
           B64Chars[((data[2] % 16) * 4) + 1], B64Pad>>
    ELSE <<B64Chars[(data[1] \div 4) + 1],
           B64Chars[((data[1] % 4) * 16 + (data[2] \div 16)) + 1],
           B64Chars[((data[2] % 16) * 4 + (data[3] \div 64)) + 1],
           B64Chars[(data[3] % 64) + 1]>>
         \o b64encode(SubSeq(data, 4, Len(data)))

----------------------------------------------------------------------------
(* read_file (app.py:543-577) and read_file_binary (app.py:733-753)        *)
(* A result records how the call ended in "status": "ok" for a success     *)
(* value, "error" for a returned error value, "raised" for an exception    *)
(* that leaves the function; "reason" names the check that failed.  The    *)
(* wording of the error messages is left out.                              *)

Raised(exception, reason) ==
    [status |-> "raised", exception |-> exception, reason |-> reason]
ErrorDict(reason) ==
    [status |-> "error", error |-> TRUE, reason |-> reason]

\* read_file with the extension check made before the regular-file check
read_file_ExtensionFirst(file_path) ==
    LET normalized_file == normalize_path(file_path)
        ext == Lower(splitext_ext(normalized_file))
    IN  IF ~is_allowed_path(normalized_file)
        THEN Raised("ValueError", "AccessDenied")
        ELSE IF ~(\E i \in 1..Len(allowed_extensions) : allowed_extensions[i] = ext)
        THEN Raised("ValueError", "DisallowedExtension")
        ELSE IF ~isfile(normalized_file)
        THEN Raised("ValueError", "NotAFile")
        ELSE IF ~CanRead(normalized_file)
        THEN Raised("PermissionError", "ReadError")
        ELSE [status |-> "ok", text |-> read_text(EntryAt(normalized_file).bytes)]

read_file(file_path) ==
    With(normalize_path(file_path), LAMBDA normalized_file :
    LET ext == Lower(splitext_ext(normalized_file))
    IN  IF ~is_allowed_path(normalized_file)
        THEN Raised("ValueError", "AccessDenied")
        ELSE IF ~isfile(normalized_file)
        THEN Raised("ValueError", "NotAFile")
        ELSE IF ~(\E i \in 1..Len(allowed_extensions) : allowed_extensions[i] = ext)
        THEN Raised("ValueError", "DisallowedExtension")
        ELSE IF ~CanRead(normalized_file)
        THEN Raised("PermissionError", "ReadError")
        ELSE [status |-> "ok", text |-> read_text(EntryAt(normalized_file).bytes)])

\* read_file_binary without the extension check
read_file_binary_AnyExtension(file_path) ==
    LET normalized_file == normalize_path(file_path)
    IN  IF ~is_allowed_path(normalized_file)
        THEN ErrorDict("AccessDenied")
        ELSE IF ~isfile(normalized_file)
        THEN ErrorDict("NotAFile")
        ELSE IF ~CanRead(normalized_file)
        THEN ErrorDict("ReadError")
        ELSE [status |-> "ok", error |-> FALSE, encoding |-> "base64",
              content_base64 |-> b64encode(EntryAt(normalized_file).bytes)]

read_file_binary(file_path) ==
    With(normalize_path(file_path), LAMBDA normalized_file :
    LET ext == Lower(splitext_ext(normalized_file))
    IN  IF ~is_allowed_path(normalized_file)
        THEN ErrorDict("AccessDenied")
        ELSE IF ~isfile(normalized_file)
        THEN ErrorDict("NotAFile")
        ELSE IF ~(\E i \in 1..Len(allowed_extensions) : allowed_extensions[i] = ext)
        THEN ErrorDict("DisallowedExtension")
        ELSE IF ~CanRead(normalized_file)
        THEN ErrorDict("ReadError")
        ELSE [status |-> "ok", error |-> FALSE, encoding |-> "base64",
              content_base64 |-> b64encode(EntryAt(normalized_file).bytes)])

----------------------------------------------------------------------------
(* Progress checkpoints.  elapsed_time, items_per_second and               *)
(* processing_time depend on the clock alone and are left out.             *)

\* Python's None where a path is expected, where a checkpoint is expected,
\* where a percentage is expected and where a size is expected
None == <<"None">>
NoCheckpoint == [none |-> TRUE]
NoPercentage == -1
NoSize == -1

\* the percentage cut off after two decimals instead of rounded
percentage_Truncated(processed, total) == (processed * 10000) \div total

\* Floating point.  A numeral is a sequence of limbs, digits to the base
\* LIMB with the least significant first; a float is a numeral num and a
\* count exp of fraction bits, its value is num / 2^exp.  Python's float
\* keeps MANT_DIG significant bits and every operation returns the float
\* nearest to the exact result, a tie going to the even one.
MANT_DIG == 53
LIMB_BITS == 13
LIMB == 2^LIMB_BITS

\* the numeral without its leading zero limbs
RECURSIVE NumTrim(_)
NumTrim(a) ==
    IF Len(a) > 0 /\ a[Len(a)] = 0
    THEN NumTrim(SubSeq(a, 1, Len(a) - 1)) ELSE a

\* the numeral of a natural number, and the number of a numeral
RECURSIVE NumOf(_)
NumOf(n) == IF n = 0 THEN <<>> ELSE <<n % LIMB>> \o NumOf(n \div LIMB)

RECURSIVE NumValue(_)
NumValue(a) == IF Len(a) = 0 THEN 0 ELSE Head(a) + LIMB * NumValue(Tail(a))

\* the numeral of a * c + carry for a small number c
RECURSIVE NumTimes(_, _, _)
NumTimes(a, c, carry) ==
    IF Len(a) = 0 THEN NumOf(carry)
    ELSE <<(Head(a) * c + carry) % LIMB>>
         \o NumTimes(Tail(a), c, (Head(a) * c + carry) \div LIMB)

\* the number of significant bits of a natural number and of a numeral
RECURSIVE IntBits(_)
IntBits(n) == IF n = 0 THEN 0 ELSE 1 + IntBits(n \div 2)

NumBits(a) ==
    IF Len(NumTrim(a)) = 0 THEN 0
    ELSE LIMB_BITS * (Len(NumTrim(a)) - 1) + IntBits(a[Len(NumTrim(a))])

\* limb j and bit i (counted from 0) of a numeral
NumLimb(a, j) == IF j <= Len(a) THEN a[j] ELSE 0
NumBit(a, i) == (NumLimb(a, i \div LIMB_BITS + 1) \div 2^(i % LIMB_BITS)) % 2

\* the k lowest bits of a are all 0
LowBitsZero(a, k) ==
    /\ \A j \in 1..(k \div LIMB_BITS) : NumLimb(a, j) = 0
    /\ NumLimb(a, k \div LIMB_BITS + 1) % 2^(k % LIMB_BITS) = 0

\* a / 2^d without its fraction
NumShiftRight(a, d) ==
    LET limbs == d \div LIMB_BITS
        bits == d % LIMB_BITS
    IN  NumTrim([j \in 1..(IF Len(a) > limbs THEN Len(a) - limbs ELSE 0) |->
                   NumLimb(a, j + limbs) \div 2^bits
                   + (NumLimb(a, j + limbs + 1) % 2^bits) * 2^(LIMB_BITS - bits)])

\* a / 2^d rounded to the nearest integer, a tie to the even one; inexact
\* says that the number to round is a little more than a
NumRound(a, d, inexact) ==
    IF d <= 0 THEN a
    ELSE IF /\ NumBit(a, d - 1) = 1
            /\ (inexact \/ ~LowBitsZero(a, d - 1) \/ NumBit(a, d) = 1)
    THEN NumTimes(NumShiftRight(a, d), 1, 1)
    ELSE NumShiftRight(a, d)

\* long division: the lower limbs q with one more limb above them
PushLimb(q, limb) == [limbs |-> q.limbs \o <<limb>>, rest |-> q.rest]

\* the first k limbs after the point of r / n, where r < n, and what is left
\* of r after them
RECURSIVE LongDivide(_, _, _)
LongDivide(r, n, k) ==
    IF k = 0 THEN [limbs |-> <<>>, rest |-> r]
    ELSE PushLimb(LongDivide((r * LIMB) % n, n, k - 1), (r * LIMB) \div n)

\* processed / total of two positive ints: the quotient, taken to six limbs
\* after the point, rounded to MANT_DIG significant bits
true_divide(processed, total) ==
    LET frac == LongDivide(processed % total, total, 6)
        quotient == NumTrim(frac.limbs \o NumOf(processed \div total))
        d == NumBits(quotient) - MANT_DIG
    IN  [num |-> NumRound(quotient, d, frac.rest # 0),
         exp |-> 6 * LIMB_BITS - d]

\* x * 100 of a float x: the product rounded to MANT_DIG significant bits
float_times_100(x) ==
    LET product == NumTimes(x.num, 100, 0)
        d == IF NumBits(product) > MANT_DIG
             THEN NumBits(product) - MANT_DIG ELSE 0
    IN  [num |-> NumRound(product, d, FALSE), exp |-> x.exp - d]

\* round(x, 2) of a float x, in hundredths: the multiple of 0.01 nearest to
\* the value of x, a tie to the even one
round_2(x) == NumValue(NumRound(NumTimes(x.num, 100, 0), x.exp, FALSE))

\* round((processed / total) * 100, 2), in hundredths of a percent
percentage(processed, total) ==
    IF processed = 0 THEN 0
    ELSE round_2(float_times_100(true_divide(processed, total)))

\* the loop of list_directory (app.py:457-470) from item i on: a checkpoint
\* at every batch_size-th item and at the last one
RECURSIVE DirectoryProgress(_, _, _)
DirectoryProgress(i, total_items, batch_size) ==
    IF i > total_items THEN <<>>
    ELSE (IF i % batch_size = 0 \/ i = total_items
          THEN <<[processed |-> i, total |-> total_items,
                  percentage |-> percentage(i, total_items)]>>
          ELSE <<>>)
         \o DirectoryProgress(i + 1, total_items, batch_size)

\* final_progress taken from the front of the list: progress_updates[0]
FinalProgress_First(progress_updates) ==
    IF Len(progress_updates) > 0
    THEN progress_updates[1] ELSE NoCheckpoint

\* progress_updates[-1] if progress_updates else None (app.py:487, 677)
FinalProgress(progress_updates) ==
    IF Len(progress_updates) > 0
    THEN progress_updates[Len(progress_updates)] ELSE NoCheckpoint

----------------------------------------------------------------------------
(* list_directory (app.py:392-541)                                         *)

\* the word that marks a failure in the list a call without progress returns
ERROR_WORD == <<"e","r","r","o","r">>

\* an error return of list_directory: a dict in progress mode, else the
\* list ["error", error_message]
DirectoryError(report_progress, stage, reason) ==
    IF report_progress
    THEN [status |-> "error", error |-> TRUE, stage |-> stage, reason |-> reason]
    ELSE [status |-> "error", list |-> <<ERROR_WORD, reason>>, reason |-> reason]

\* with None for directory, path.replace in normalize_path raises
\* AttributeError, which the outer handler (app.py:533-541) turns into a
\* return
list_directory(directory, report_progress, batch_size) ==
    With(normalize_path(directory), LAMBDA normalized_dir :
    LET directory_contents == listdir(normalized_dir)
        total_items == Len(directory_contents)
    IN  IF directory = None
        THEN DirectoryError(report_progress, "outer_exception", "AttributeError")
        ELSE IF ~is_allowed_path(normalized_dir)
        THEN DirectoryError(report_progress, "permission_check", "AccessDenied")
        ELSE IF ~isdir(normalized_dir)
        THEN DirectoryError(report_progress, "directory_validation", "NotADirectory")
        ELSE IF ~CanRead(normalized_dir)
        THEN DirectoryError(report_progress, "permission_denied", "PermissionDenied")
        ELSE IF ~report_progress
        THEN [status |-> "ok", list |-> directory_contents]
        ELSE IF batch_size = 0 /\ total_items > 0
        THEN DirectoryError(report_progress, "unexpected_error", "ZeroDivisionError")
        ELSE LET progress_updates == DirectoryProgress(1, total_items, batch_size)
             IN  [status |-> "ok", error |-> FALSE,
                  contents |-> directory_contents,
                  total_items |-> total_items,
                  final_progress |-> FinalProgress(progress_updates),
                  progress_updates |-> progress_updates,
                  normalized_path |-> normalized_dir])

\* list_directory step by step.  A frame holds the local variables of one
\* activation: the request it serves and, inside the loop, the entries still
\* to visit and what was built so far.

Request(op, path, report_progress, batch_size) ==
    [op |-> op, path |-> path, report_progress |-> report_progress,
     batch_size |-> batch_size]

\* a call that has returned
DoneFrame(req, result) == [pc |-> "done", req |-> req, result |-> result]

\* the locals of a call inside its loop: the entries still to visit, the
\* lists and counters built so far (app.py:454-455, 594-598)
LoopFrame(req, items, directory_contents, total_items) ==
    [pc |-> "loop", req |-> req, items |-> items,
     directory_contents |-> directory_contents, total_items |-> total_items,
     resources |-> <<>>, processed |-> 0, progress_updates |-> <<>>]

\* list_directory up to its loop (app.py:412-456): a failed check, a failed
\* directory read and the call without progress return at once
BeginListDirectory(req) ==
    With(normalize_path(req.path), LAMBDA normalized_dir :
        IF /\ req.path # None
           /\ is_allowed_path(normalized_dir)
           /\ isdir(normalized_dir)
           /\ CanRead(normalized_dir)
           /\ req.report_progress
        THEN LoopFrame(req, listdir(normalized_dir), listdir(normalized_dir),
                       Len(listdir(normalized_dir)))
        ELSE DoneFrame(req, list_directory(req.path, req.report_progress,
                                           req.batch_size)))

\* one iteration of the loop of list_directory (app.py:457-470)
StepListDirectory(frame) ==
    LET i == frame.processed + 1
    IN  IF frame.req.batch_size = 0
        THEN DoneFrame(frame.req,
                       DirectoryError(TRUE, "unexpected_error", "ZeroDivisionError"))
        ELSE [frame EXCEPT
                 !.items = Tail(frame.items),
                 !.resources = Append(frame.resources, Head(frame.items)),
                 !.processed = i,
                 !.progress_updates =
                     IF i % frame.req.batch_size = 0 \/ i = frame.total_items
                     THEN Append(frame.progress_updates,
                                 [processed |-> i, total |-> frame.total_items,
                                  percentage |-> percentage(i, frame.total_items)])
                     ELSE frame.progress_updates]

\* the return of list_directory in progress mode (app.py:479-492)
FinishListDirectory(frame) ==
    DoneFrame(frame.req,
              [status |-> "ok", error |-> FALSE,
               contents |-> frame.directory_contents,
               total_items |-> frame.total_items,
               final_progress |-> FinalProgress(frame.progress_updates),
               progress_updates |-> frame.progress_updates,
               normalized_path |-> normalize_path(frame.req.path)])

\* whether list_directory waits after the iteration that left this frame
\* (time.sleep at app.py:473-474): a checkpoint was appended, the directory
\* holds more than one batch, and entries are left
Sleeps(frame) ==
    /\ frame.pc = "loop"
    /\ frame.processed > 0
    /\ frame.processed % frame.req.batch_size = 0
    /\ frame.total_items > frame.req.batch_size
    /\ frame.processed < frame.total_items

\* list_directory from a frame on, up to its next wait or to its return
RECURSIVE RunListDirectory(_)
RunListDirectory(frame) ==
    IF frame.pc # "loop" THEN frame
    ELSE IF Len(frame.items) = 0 THEN FinishListDirectory(frame)
    ELSE IF Sleeps(StepListDirectory(frame)) THEN StepListDirectory(frame)
    ELSE RunListDirectory(StepListDirectory(frame))

----------------------------------------------------------------------------
(* list_resources (app.py:579-685)                                         *)

Names(entries) == [i \in 1..Len(entries) |-> entries[i].name]

\* os.walk called with followlinks=True: every directory entry is walked
Descends_FollowLinks(new_path) == TRUE

\* the test of os.walk before it descends into new_path (followlinks is
\* False): a symbolic link is reported among dirs and not walked
Descends(new_path) == ~islink(new_path)

\* os.walk(top): top-down, links not followed, errors of the directory read
\* ignored (onerror=None): one (root, dirs, files) triple per directory read;
\* every entry that is not a directory is reported among the files
RECURSIVE Walk(_)
RECURSIVE WalkEach(_, _)
Walk(top) ==
    IF ~isdir(top) \/ ~CanRead(top) THEN <<>>
    ELSE LET dirs == Names(DirEntries(Children(top)))
             files == Names(NonDirs(Children(top)))
         IN  <<[root |-> top, dirs |-> dirs, files |-> files]>>
             \o WalkEach(top, dirs)
WalkEach(top, dirs) ==
    IF Len(dirs) = 0 THEN <<>>
    ELSE (IF Descends(join(top, Head(dirs)))
          THEN Walk(join(top, Head(dirs))) ELSE <<>>)
         \o WalkEach(top, Tail(dirs))

\* a walk that stops after the first base directory
WalkAll_FirstOnly(dirs_to_walk) ==
    IF Len(dirs_to_walk) = 0 THEN <<>> ELSE Walk(Head(dirs_to_walk))

\* the walks of all base directories, one after the other
RECURSIVE WalkAll(_)
WalkAll(dirs_to_walk) ==
    IF Len(dirs_to_walk) = 0 THEN <<>>
    ELSE Walk(Head(dirs_to_walk)) \o WalkAll(Tail(dirs_to_walk))

\* the pre-pass (app.py:607-610): len(dirs) + len(files) over every triple
RECURSIVE CountItems(_)
CountItems(triples) ==
    IF Len(triples) = 0 THEN 0
    ELSE Len(Head(triples).dirs) + Len(Head(triples).files)
         + CountItems(Tail(triples))

\* the entries the main walk visits, in order: per triple the directories,
\* then the files
RECURSIVE Visited(_)
Visited(triples) ==
    IF Len(triples) = 0 THEN <<>>
    ELSE LET t == Head(triples)
         IN  [i \in 1..Len(t.dirs) |->
                 [type |-> "directory", root |-> t.root, name |-> t.dirs[i]]]
             \o [i \in 1..Len(t.files) |->
                 [type |-> "file", root |-> t.root, name |-> t.files[i]]]
             \o Visited(Tail(triples))

InExtensions(ext) ==
    \E i \in 1..Len(allowed_extensions) : allowed_extensions[i] = ext

\* the descriptors built at app.py:619-626 and app.py:648-658 (the
\* modification time is left out with the clock)
DirectoryResource(path_norm, name) ==
    [id |-> path_norm, type |-> "directory", name |-> name,
     path |-> path_norm, metadata |-> <<>>, actions |-> <<"list">>]
\* the size is os.stat(path).st_size, and None when os.stat raises
\* (app.py:641-647): a link whose target is missing or cannot be reached
FileResource(path_norm, name) ==
    [id |-> path_norm, type |-> "file", name |-> name, path |-> path_norm,
     metadata |-> [size |-> IF Visible(path_norm)
                            THEN Len(EntryAt(path_norm).bytes) ELSE NoSize],
     actions |-> <<"read", "read_binary">>]

\* whether the main walk appends a checkpoint after counting an item
ResourceCheckpointDue(processed, report_progress, batch_size) ==
    report_progress /\ processed % batch_size = 0

\* the iteration without the extension filter on files
VisitItem_NoExtensionFilter(acc, item, total_items, report_progress, batch_size) ==
    LET path_norm == normalize_path(join(item.root, item.name))
        ext == Lower(splitext_ext(item.name))
        accepted == IF item.type = "directory"
                    THEN is_allowed_path(path_norm)
                    ELSE is_allowed_path(path_norm)
        processed == acc.processed + 1
    IN  IF acc.raised \/ ~accepted THEN acc
        ELSE IF report_progress /\ batch_size = 0
        THEN [acc EXCEPT !.raised = TRUE]
        ELSE [resources |->
                 Append(acc.resources,
                        IF item.type = "directory"
                        THEN DirectoryResource(path_norm, item.name)
                        ELSE FileResource(path_norm, item.name)),
              processed |-> processed,
              progress_updates |->
                 IF ResourceCheckpointDue(processed, report_progress, batch_size)
                 THEN Append(acc.progress_updates,
                             [processed |-> processed, total |-> total_items,
                              percentage |->
                                 IF total_items # 0
                                 THEN percentage(processed, total_items)
                                 ELSE NoPercentage])
                 ELSE acc.progress_updates,
              raised |-> FALSE]

\* one iteration of the inner loops of the main walk (app.py:615-666)
VisitItem(acc, item, total_items, report_progress, batch_size) ==
    With(normalize_path(join(item.root, item.name)), LAMBDA path_norm :
    LET ext == Lower(splitext_ext(item.name))
        accepted == IF item.type = "directory"
                    THEN is_allowed_path(path_norm)
                    ELSE is_allowed_path(path_norm) /\ InExtensions(ext)
        processed == acc.processed + 1
    IN  IF acc.raised \/ ~accepted THEN acc
        ELSE IF report_progress /\ batch_size = 0
        THEN [acc EXCEPT !.raised = TRUE]
        ELSE [resources |->
                 Append(acc.resources,
                        IF item.type = "directory"
                        THEN DirectoryResource(path_norm, item.name)
                        ELSE FileResource(path_norm, item.name)),
              processed |-> processed,
              progress_updates |->
                 IF ResourceCheckpointDue(processed, report_progress, batch_size)
                 THEN Append(acc.progress_updates,
                             [processed |-> processed, total |-> total_items,
                              percentage |->
                                 IF total_items # 0
                                 THEN percentage(processed, total_items)
                                 ELSE NoPercentage])
                 ELSE acc.progress_updates,
              raised |-> FALSE])

RECURSIVE MainWalk(_, _, _, _, _)
MainWalk(acc, items, total_items, report_progress, batch_size) ==
    IF Len(items) = 0 THEN acc
    ELSE MainWalk(VisitItem(acc, Head(items), total_items, report_progress,
                            batch_size),
                  Tail(items), total_items, report_progress, batch_size)

\* [d for d in allowed_dirs if os.path.isdir(d)]
RECURSIVE ExistingRoots(_)
ExistingRoots(dirs) ==
    IF Len(dirs) = 0 THEN <<>>
    ELSE (IF isdir(Head(dirs)) THEN <<Head(dirs)>> ELSE <<>>)
         \o ExistingRoots(Tail(dirs))

\* directory is None, or a path; None and the empty string are falsy
list_resources(directory, report_progress, batch_size) ==
    With(normalize_path(directory), LAMBDA dir_norm :
    LET given == directory # None /\ directory # <<>>
    IN  With(WalkAll(IF given THEN <<dir_norm>> ELSE ExistingRoots(allowed_dirs)),
             LAMBDA triples :
        With(MainWalk([resources |-> <<>>, processed |-> 0,
                       progress_updates |-> <<>>, raised |-> FALSE],
                      Visited(triples),
                      IF report_progress THEN CountItems(triples) ELSE 0,
                      report_progress, batch_size),
             LAMBDA done :
        IF given /\ (~is_allowed_path(dir_norm) \/ ~isdir(dir_norm))
        THEN ErrorDict("NotAllowedOrNotADirectory")
        ELSE IF done.raised
        THEN Raised("ZeroDivisionError", "batch_size")
        ELSE IF report_progress
        THEN [status |-> "ok", error |-> FALSE,
              contents |-> done.resources,
              total_items |-> done.processed,
              final_progress |-> FinalProgress(done.progress_updates),
              progress_updates |-> done.progress_updates,
              normalized_path |-> IF given THEN dir_norm ELSE None]
        ELSE [status |-> "ok", list |-> done.resources])))

----------------------------------------------------------------------------
(* get_resource (app.py:687-731)                                           *)

\* get_resource that builds a file descriptor whatever the extension
get_resource_NoExtensionCheck(path) ==
    LET normalized_path == normalize_path(path)
        name == basename(normalized_path)
    IN  IF ~is_allowed_path(normalized_path) THEN ErrorDict("AccessDenied")
        ELSE IF ~exists(normalized_path) THEN ErrorDict("NotFound")
        ELSE IF isdir(normalized_path)
        THEN [status |-> "ok"] @@ DirectoryResource(normalized_path, name)
        ELSE IF isfile(normalized_path)
        THEN [status |-> "ok"] @@ FileResource(normalized_path, name)
        ELSE ErrorDict("NeitherFileNorDirectory")

get_resource(path) ==
    With(normalize_path(path), LAMBDA normalized_path :
    LET name == basename(normalized_path)
        ext == Lower(splitext_ext(name))
    IN  IF ~is_allowed_path(normalized_path) THEN ErrorDict("AccessDenied")
        ELSE IF ~exists(normalized_path) THEN ErrorDict("NotFound")
        ELSE IF isdir(normalized_path)
        THEN [status |-> "ok"] @@ DirectoryResource(normalized_path, name)
        ELSE IF isfile(normalized_path)
        THEN IF ~InExtensions(ext) THEN ErrorDict("DisallowedExtension")
             ELSE [status |-> "ok"] @@ FileResource(normalized_path, name)
        ELSE ErrorDict("NeitherFileNorDirectory"))

----------------------------------------------------------------------------
(* init (app.py:242-390)                                                   *)

\* batch_size default of list_directory and list_resources
DEFAULT_BATCH_SIZE == 100

\* report_progress default of list_directory and list_resources
DEFAULT_REPORT_PROGRESS == TRUE

\* the verdict of the loop body (app.py:292-319) on one configured root
RootAccessible(directory_path) ==
    exists(directory_path) /\ isdir(directory_path) /\ CanRead(directory_path)

RECURSIVE AccessibleDirs(_)
AccessibleDirs(dirs) ==
    IF Len(dirs) = 0 THEN <<>>
    ELSE (IF RootAccessible(Head(dirs)) THEN <<Head(dirs)>> ELSE <<>>)
         \o AccessibleDirs(Tail(dirs))

RECURSIVE InaccessibleDirs(_)
InaccessibleDirs(dirs) ==
    IF Len(dirs) = 0 THEN <<>>
    ELSE (IF RootAccessible(Head(dirs)) THEN <<>> ELSE <<Head(dirs)>>)
         \o InaccessibleDirs(Tail(dirs))

\* what init adds for its directory argument (app.py:356-379)
InitDirectoryPart(directory) ==
    IF directory = None THEN [directory_listed |-> None]
    ELSE LET directory_contents == list_directory(directory, TRUE, DEFAULT_BATCH_SIZE)
         IN  IF directory_contents.status = "error"
             THEN [directory_listed |-> None,
                   directory_error |-> directory_contents.reason]
             ELSE [directory_listed |-> directory,
                   directory_contents |-> directory_contents.contents,
                   directory_total_items |-> directory_contents.total_items]

\* what init adds for its file_path argument (app.py:382-388)
InitFilePart(file_path) ==
    IF file_path = None THEN [file_read |-> None]
    ELSE LET file_content == read_file(file_path)
         IN  IF file_content.status = "raised"
             THEN [file_read |-> None, file_error |-> file_content.reason]
             ELSE [file_read |-> file_path, file_content |-> file_content.text]

\* init without the early return for an empty root list
init_NoEmptyRootsCheck(directory, file_path) ==
    IF Len(allowed_extensions) = 0
    THEN [status |-> "error", isError |-> TRUE, message |-> "NoAllowedExtensions",
          allowed_dirs |-> allowed_dirs,
          accessible_dirs |-> <<>>, inaccessible_dirs |-> <<>>]
    ELSE LET accessible_dirs == AccessibleDirs(allowed_dirs)
             inaccessible_dirs == InaccessibleDirs(allowed_dirs)
             has_errors == Len(inaccessible_dirs) > 0
         IN  [status |-> IF has_errors THEN "error" ELSE "ok",
              isError |-> has_errors,
              message |-> IF has_errors THEN "SomeNotAccessible" ELSE "OK",
              allowed_dirs |-> allowed_dirs,
              accessible_dirs |-> accessible_dirs,
              inaccessible_dirs |-> inaccessible_dirs]
             @@ InitDirectoryPart(directory) @@ InitFilePart(file_path)

init(directory, file_path) ==
    IF Len(allowed_dirs) = 0
    THEN [status |-> "error", isError |-> TRUE, message |-> "NoAllowedDirs",
          allowed_dirs |-> allowed_dirs,
          accessible_dirs |-> <<>>, inaccessible_dirs |-> <<>>]
    ELSE IF Len(allowed_extensions) = 0
    THEN [status |-> "error", isError |-> TRUE, message |-> "NoAllowedExtensions",
          allowed_dirs |-> allowed_dirs,
          accessible_dirs |-> <<>>, inaccessible_dirs |-> <<>>]
    ELSE LET accessible_dirs == AccessibleDirs(allowed_dirs)
             inaccessible_dirs == InaccessibleDirs(allowed_dirs)
             has_errors == Len(inaccessible_dirs) > 0
         IN  [status |-> IF has_errors THEN "error" ELSE "ok",
              isError |-> has_errors,
              message |-> IF has_errors THEN "SomeNotAccessible" ELSE "OK",
              allowed_dirs |-> allowed_dirs,
              accessible_dirs |-> accessible_dirs,
              inaccessible_dirs |-> inaccessible_dirs]
             @@ InitDirectoryPart(directory) @@ InitFilePart(file_path)

----------------------------------------------------------------------------
(* Configurations and caller inputs                                        *)

\* working directories of the server process
Cwds == {P_data, P_root}

\* --allowed-dirs as written by the administrator
RootConfigs == {
    <<>>,
    <<P_data>>,
    <<P_data, P_sub>>,
    <<<<BACKSLASH,"d","a","t","a",BACKSLASH,"s","u","b",BACKSLASH>>>>,
    <<P_other, <<"s","u","b">>>>,
    <<P_database, P_data \o <<"/","n","o","n","e">>>>,
    <<P_data, P_priv, join(P_data, N_a_txt)>>
}

\* --allowed-extensions as written by the administrator
ExtConfigs == {
    <<>>,
    <<<<".","t","x","t">>>>,
    <<<<".","T","X","T">>, <<".","b","i","n">>>>
}

\* load_configuration (app.py:113, 119): the roots are normalized and the
\* extensions lowercased once, at load time
LoadDirs(raw, dir) == [i \in 1..Len(raw) |-> normalize_in(raw[i], dir)]
LoadExtensions(raw) == [i \in 1..Len(raw) |-> Lower(raw[i])]

\* paths callers pass to the operations
CallPaths == {
    P_root, P_data, P_sub, P_deep, P_database, P_other,
    join(P_data, N_a_txt), join(P_data, N_a_bin), join(P_data, N_locked),
    join(P_sub, N_n_TXT), join(P_database, N_s_txt), join(P_other, N_a_txt),
    <<>>,
    N_a_txt, N_a_bin,
    <<"s","u","b">>,
    <<BACKSLASH,"d","a","t","a",BACKSLASH>> \o N_a_bin,
    <<"s","u","b",BACKSLASH>> \o N_n_TXT,
    P_data \o <<"/",".",".","/">> \o Tail(join(P_other, N_a_txt)),
    P_sub \o <<"/",".",".","/">> \o N_a_txt,
    <<".",".","/">> \o Tail(join(P_database, N_s_txt)),
    P_data \o <<"/","z",".","t","x","t">>,
    <<"/","D","A","T","A">>,
    <<"/","d","a","t">>,
    P_priv, join(P_priv, N_x_txt), join(P_other, N_pipe),
    P_data \o <<"/",".",".">> \o P_database,
    P_data \o <<"/",".",".">> \o join(P_database, N_s_txt),
    P_data \o <<"/",".","/">> \o N_a_txt,
    P_back, join(P_back, N_a_txt)
}

BatchSizes == 0..MaxBatch

----------------------------------------------------------------------------
(* The server: a configuration is loaded once; then calls are served, one  *)
(* result per call.                                                        *)

Idle == [op |-> "idle"]

Init ==
    /\ os_name = "posix"
    /\ fs = FS
    /\ cwd \in Cwds
    /\ \E raw \in RootConfigs : allowed_dirs = LoadDirs(raw, cwd)
    /\ \E raw \in ExtConfigs : allowed_extensions = LoadExtensions(raw)
    /\ call = Idle

CallIsAllowedPath ==
    /\ call = Idle
    /\ \E path \in CallPaths :
         call' = [op |-> "is_allowed_path", path |-> path,
                  result |-> is_allowed_path(path)]
    /\ UNCHANGED <<host, cwd, allowed_dirs, allowed_extensions>>

\* an init that adds the directory it was given to the configured roots
CallInit_AddsDirectory ==
    /\ call = Idle
    /\ \E directory \in {None, P_data, P_database, <<"s","u","b">>} :
       \E file_path \in {None, N_a_txt, join(P_data, N_a_bin),
                         join(P_database, N_s_txt)} :
         /\ call' = [op |-> "init", directory |-> directory,
                     file_path |-> file_path,
                     result |-> init(directory, file_path)]
         /\ allowed_dirs' = IF directory = None THEN allowed_dirs
                            ELSE Append(allowed_dirs, normalize_path(directory))
    /\ UNCHANGED <<host, cwd, allowed_extensions>>

CallInit ==
    /\ call = Idle
    /\ \E directory \in {None, P_data, P_database, <<"s","u","b">>} :
       \E file_path \in {None, N_a_txt, join(P_data, N_a_bin),
                         join(P_database, N_s_txt)} :
         call' = [op |-> "init", directory |-> directory,
                  file_path |-> file_path,
                  result |-> init(directory, file_path)]
    /\ UNCHANGED <<host, cwd, allowed_dirs, allowed_extensions>>

\* what the gateway holds of a call of list_directory: its locals while the
\* call waits inside its loop, the result once it has returned
Served(frame, path_only) ==
    IF frame.pc # "done"
    THEN [op |-> "asleep", frame |-> frame, path_only |-> path_only]
    ELSE IF path_only
    THEN [op |-> "list_directory", path |-> frame.req.path,
          report_progress |-> frame.req.report_progress,
          batch_size |-> frame.req.batch_size,
          path_only |-> TRUE, result |-> frame.result]
    ELSE [op |-> "list_directory", path |-> frame.req.path,
          report_progress |-> frame.req.report_progress,
          batch_size |-> frame.req.batch_size, result |-> frame.result]

\* list_directory is called and runs up to its first wait or to its return
CallListDirectory ==
    /\ call = Idle
    /\ \E directory \in CallPaths, report_progress \in BOOLEAN,
          batch_size \in BatchSizes :
         call' = Served(RunListDirectory(BeginListDirectory(
                            Request("list_directory", directory,
                                    report_progress, batch_size))), FALSE)
    /\ UNCHANGED <<host, cwd, allowed_dirs, allowed_extensions>>

\* list_directory(directory): report_progress and batch_size take their
\* defaults (test_functions.py:29)
CallListDirectoryPathOnly ==
    /\ call = Idle
    /\ \E directory \in CallPaths :
         call' = Served(RunListDirectory(BeginListDirectory(
                            Request("list_directory", directory,
                                    DEFAULT_REPORT_PROGRESS,
                                    DEFAULT_BATCH_SIZE))), TRUE)
    /\ UNCHANGED <<host, cwd, allowed_dirs, allowed_extensions>>

\* the wait of list_directory is over: the loop goes on up to the next wait
\* or to the return
WakeListDirectory ==
    /\ call.op = "asleep"
    /\ call' = Served(RunListDirectory(call.frame), call.path_only)
    /\ UNCHANGED <<host, cwd, allowed_dirs, allowed_extensions>>

CallReadFile ==
    /\ call = Idle
    /\ \E file_path \in CallPaths :
         call' = [op |-> "read_file", path |-> file_path,
                  result |-> read_file(file_path)]
    /\ UNCHANGED <<host, cwd, allowed_dirs, allowed_extensions>>

CallReadFileBinary ==
    /\ call = Idle
    /\ \E file_path \in CallPaths :
         call' = [op |-> "read_file_binary", path |-> file_path,
                  result |-> read_file_binary(file_path)]
    /\ UNCHANGED <<host, cwd, allowed_dirs, allowed_extensions>>

CallListResources ==
    /\ call = Idle
    /\ \E directory \in CallPaths \cup {None}, report_progress \in BOOLEAN,
          batch_size \in BatchSizes :
         call' = [op |-> "list_resources", path |-> directory,
                  report_progress |-> report_progress,
                  batch_size |-> batch_size,
                  result |-> list_resources(directory, report_progress, batch_size)]
    /\ UNCHANGED <<host, cwd, allowed_dirs, allowed_extensions>>

CallGetResource ==
    /\ call = Idle
    /\ \E path \in CallPaths :
         call' = [op |-> "get_resource", path |-> path,
                  result |-> get_resource(path)]
    /\ UNCHANGED <<host, cwd, allowed_dirs, allowed_extensions>>

\* the response is delivered; the server waits for the next call
Return ==
    /\ call # Idle
    /\ call.op # "asleep"
    /\ call' = Idle
    /\ UNCHANGED <<host, cwd, allowed_dirs, allowed_extensions>>

Next ==
    \/ CallIsAllowedPath
    \/ CallInit
    \/ CallListDirectory
    \/ CallListDirectoryPathOnly
    \/ WakeListDirectory
    \/ CallReadFile
    \/ CallReadFileBinary
    \/ CallListResources
    \/ CallGetResource
    \/ Return

Spec == Init /\ [][Next]_vars

----------------------------------------------------------------------------
(* load_configuration (app.py:96-168): the command line first, the         *)
(* configuration file for what the command line left unset.  The printed   *)
(* messages are left out.                                                  *)

\* args.allowed_dirs / args.allowed_extensions: None when the option is not
\* on the command line, else the list of its values (nargs='*')
NoArg == [given |-> FALSE, value |-> <<>>]
Arg(value) == [given |-> TRUE, value |-> value]

\* what open(args.config) and json.load find
MissingFile == [state |-> "missing", allowed_dirs |-> <<>>,
                allowed_extensions |-> <<>>]
UnreadableFile == [state |-> "unreadable", allowed_dirs |-> <<>>,
                   allowed_extensions |-> <<>>]
MalformedFile == [state |-> "malformed", allowed_dirs |-> <<>>,
                  allowed_extensions |-> <<>>]
\* a JSON object; a key it does not hold reads as [] (config.get(key, []))
ConfigFile(dirs, extensions) ==
    [state |-> "ok", allowed_dirs |-> dirs, allowed_extensions |-> extensions]

\* load_configuration that lets the file override the command line
load_configuration_FileFirst(args_dirs, args_extensions, file, dir) ==
    LET from_file == file.state = "ok"
        dirs == IF from_file /\ Len(file.allowed_dirs) > 0
                THEN LoadDirs(file.allowed_dirs, dir)
                ELSE LoadDirs(args_dirs.value, dir)
        extensions == IF from_file /\ Len(file.allowed_extensions) > 0
                      THEN LoadExtensions(file.allowed_extensions)
                      ELSE LoadExtensions(args_extensions.value)
    IN  [allowed_dirs |-> dirs, allowed_extensions |-> extensions,
         config_source |-> IF from_file THEN "config_file"
                           ELSE "command_line_args"]

load_configuration(args_dirs, args_extensions, file, dir) ==
    LET \* app.py:111-122
        cli_dirs == IF args_dirs.given /\ Len(args_dirs.value) > 0
                    THEN LoadDirs(args_dirs.value, dir) ELSE <<>>
        cli_extensions ==
            IF args_extensions.given /\ Len(args_extensions.value) > 0
            THEN LoadExtensions(args_extensions.value) ELSE <<>>
        cli_source == IF Len(cli_dirs) > 0 \/ Len(cli_extensions) > 0
                      THEN "command_line_args" ELSE "none"
        \* app.py:125-154: every exception of the try block is caught
        file_read == (Len(cli_dirs) = 0 \/ Len(cli_extensions) = 0)
                     /\ file.state = "ok"
        dirs == IF file_read /\ Len(cli_dirs) = 0
                THEN LoadDirs(file.allowed_dirs, dir) ELSE cli_dirs
        extensions == IF file_read /\ Len(cli_extensions) = 0
                      THEN LoadExtensions(file.allowed_extensions)
                      ELSE cli_extensions
        source == IF cli_source = "none"
                     /\ (Len(dirs) > 0 \/ Len(extensions) > 0)
                  THEN "config_file" ELSE cli_source
    IN  [allowed_dirs |-> dirs, allowed_extensions |-> extensions,
         config_source |-> source]

\* the command lines and the configuration files of the administrator
ArgDirs == {NoArg} \cup {Arg(raw) : raw \in RootConfigs}
ArgExtensions == {NoArg} \cup {Arg(raw) : raw \in ExtConfigs}
ConfigFiles == {
    MissingFile, UnreadableFile, MalformedFile,
    ConfigFile(<<>>, <<>>),
    ConfigFile(<<P_other>>, <<>>),
    ConfigFile(<<>>, <<<<".","M","d">>>>),
    ConfigFile(<<<<"s","u","b",BACKSLASH>>, P_database>>,
               <<<<".","M","d">>, <<".","t","x","t">>>>)
}

\* the process before the module-level call at app.py:218
Starting == [op |-> "start"]

LoadInit ==
    /\ os_name = "posix"
    /\ fs = FS
    /\ cwd \in Cwds
    /\ allowed_dirs = <<>>
    /\ allowed_extensions = <<>>
    /\ call = Starting

\* allowed_dirs, allowed_extensions, config_source = load_configuration()
LoadConfiguration ==
    /\ call = Starting
    /\ \E args_dirs \in ArgDirs, args_extensions \in ArgExtensions,
          file \in ConfigFiles :
         LET loaded == load_configuration(args_dirs, args_extensions, file, cwd)
         IN  /\ allowed_dirs' = loaded.allowed_dirs
             /\ allowed_extensions' = loaded.allowed_extensions
             /\ call' = [op |-> "load_configuration",
                         args_dirs |-> args_dirs,
                         args_extensions |-> args_extensions,
                         file |-> file,
                         config_source |-> loaded.config_source]
    /\ UNCHANGED <<host, cwd>>

\* main() starts the server whatever was loaded (app.py:804-820)
StartServing ==
    /\ call.op = "load_configuration"
    /\ call' = Idle
    /\ UNCHANGED <<host, cwd, allowed_dirs, allowed_extensions>>

LoadNext ==
    \/ LoadConfiguration
    \/ StartServing

LoadSpec == LoadInit /\ [][LoadNext]_vars

----------------------------------------------------------------------------
(* Calls served at the same time.  Every call runs its own activation of   *)
(* the tool function; a step of a call is its preamble, one iteration of   *)
(* its loop, or its return.  Here the variable call holds one frame per    *)
(* caller: the local variables of the activation the caller is waiting on. *)

Callers == 1..MaxCallers

IdleFrame == [pc |-> "idle"]

\* the calls that are made side by side
ConcBatchSizes == {1, 2}
ConcRequests ==
    {Request("list_directory", P_data, TRUE, b) : b \in ConcBatchSizes}
    \cup {Request("list_resources", None, TRUE, b) : b \in ConcBatchSizes}
    \cup {Request("list_resources", P_sub, FALSE, DEFAULT_BATCH_SIZE),
          Request("list_directory", P_other, TRUE, DEFAULT_BATCH_SIZE),
          Request("read_file", join(P_data, N_a_txt), FALSE, DEFAULT_BATCH_SIZE),
          Request("get_resource", P_sub, FALSE, DEFAULT_BATCH_SIZE)}

\* locals in which the checkpoint list is one list shared by all calls
Locals_SharedCheckpoints(frames, c) ==
    LET RECURSIVE All(_)
        All(k) == IF k > MaxCallers THEN <<>>
                  ELSE (IF frames[k].pc = "loop"
                        THEN frames[k].progress_updates ELSE <<>>)
                       \o All(k + 1)
    IN  [frames[c] EXCEPT !.progress_updates = All(1)]

\* the local variables a step of caller c works on: those of its own call
Locals(frames, c) == frames[c]

\* list_resources up to its main walk (app.py:592-610)
BeginListResources(req) ==
    LET given == req.path # None /\ req.path # <<>>
        dir_norm == normalize_path(req.path)
        dirs_to_walk == IF given THEN <<dir_norm>> ELSE ExistingRoots(allowed_dirs)
        triples == WalkAll(dirs_to_walk)
    IN  IF given /\ (~is_allowed_path(dir_norm) \/ ~isdir(dir_norm))
        THEN DoneFrame(req, ErrorDict("NotAllowedOrNotADirectory"))
        ELSE LoopFrame(req, Visited(triples), <<>>,
                       IF req.report_progress THEN CountItems(triples) ELSE 0)

\* one iteration of the main walk of list_resources (app.py:615-666)
StepListResources(frame) ==
    LET acc == VisitItem([resources |-> frame.resources,
                          processed |-> frame.processed,
                          progress_updates |-> frame.progress_updates,
                          raised |-> FALSE],
                         Head(frame.items), frame.total_items,
                         frame.req.report_progress, frame.req.batch_size)
    IN  IF acc.raised
        THEN DoneFrame(frame.req, Raised("ZeroDivisionError", "batch_size"))
        ELSE [frame EXCEPT !.items = Tail(frame.items),
                           !.resources = acc.resources,
                           !.processed = acc.processed,
                           !.progress_updates = acc.progress_updates]

\* the return of list_resources (app.py:667-685)
FinishListResources(frame) ==
    DoneFrame(frame.req,
              IF frame.req.report_progress
              THEN [status |-> "ok", error |-> FALSE,
                    contents |-> frame.resources,
                    total_items |-> frame.processed,
                    final_progress |-> FinalProgress(frame.progress_updates),
                    progress_updates |-> frame.progress_updates,
                    normalized_path |->
                        IF frame.req.path # None /\ frame.req.path # <<>>
                        THEN normalize_path(frame.req.path) ELSE None]
              ELSE [status |-> "ok", list |-> frame.resources])

ConcInit ==
    /\ os_name = "posix"
    /\ fs = FS
    /\ cwd = P_root
    /\ allowed_dirs \in {<<P_data>>, <<P_sub, P_other>>}
    /\ allowed_extensions = <<<<".","t","x","t">>>>
    /\ call = [c \in Callers |-> IdleFrame]

\* caller c makes a call; the function runs up to its loop
Begin(c) ==
    /\ call[c].pc = "idle"
    /\ \E req \in ConcRequests :
         call' = [call EXCEPT ![c] =
            CASE req.op = "list_directory" -> BeginListDirectory(req)
              [] req.op = "list_resources" -> BeginListResources(req)
              [] req.op = "read_file" -> DoneFrame(req, read_file(req.path))
              [] req.op = "get_resource" -> DoneFrame(req, get_resource(req.path))]
    /\ UNCHANGED <<host, cwd, allowed_dirs, allowed_extensions>>

\* the call of caller c runs one iteration of its loop
Step(c) ==
    /\ call[c].pc = "loop"
    /\ Len(call[c].items) > 0
    /\ call' = [call EXCEPT ![c] =
          IF call[c].req.op = "list_directory"
          THEN StepListDirectory(Locals(call, c))
          ELSE StepListResources(Locals(call, c))]
    /\ UNCHANGED <<host, cwd, allowed_dirs, allowed_extensions>>

\* the loop of the call of caller c is over; the function returns
Finish(c) ==
    /\ call[c].pc = "loop"
    /\ Len(call[c].items) = 0
    /\ call' = [call EXCEPT ![c] =
          IF call[c].req.op = "list_directory"
          THEN FinishListDirectory(Locals(call, c))
          ELSE FinishListResources(Locals(call, c))]
    /\ UNCHANGED <<host, cwd, allowed_dirs, allowed_extensions>>

\* caller c receives the result
Deliver(c) ==
    /\ call[c].pc = "done"
    /\ call' = [call EXCEPT ![c] = IdleFrame]
    /\ UNCHANGED <<host, cwd, allowed_dirs, allowed_extensions>>

ConcNext ==
    \E c \in Callers :
        \/ Begin(c)
        \/ Step(c)
        \/ Finish(c)
        \/ Deliver(c)

ConcSpec == ConcInit /\ [][ConcNext]_vars

----------------------------------------------------------------------------
(* One call at a time, step by step.  A step of list_resources is one      *)
(* directory read of os.walk, in the pre-pass or in the main walk, with    *)
(* the inner loops over the dirs and files of that read; a step of         *)
(* list_directory is one iteration of its loop.  The variable call holds   *)
(* the frame of the call being served.                                     *)

\* one directory read of os.walk: the triple it yields, none when the
\* directory cannot be read (onerror=None)
ScanDir(top) ==
    IF ~isdir(top) \/ ~CanRead(top) THEN <<>>
    ELSE <<[root |-> top,
            dirs |-> Names(DirEntries(Children(top))),
            files |-> Names(NonDirs(Children(top)))]>>

\* the directories os.walk goes into after yielding the triple of top
RECURSIVE WalkInto(_, _)
WalkInto(top, dirs) ==
    IF Len(dirs) = 0 THEN <<>>
    ELSE (IF Descends(join(top, Head(dirs)))
          THEN <<join(top, Head(dirs))>> ELSE <<>>)
         \o WalkInto(top, Tail(dirs))

\* the directories still to read after top has been read: its own first
Pending(top, todo) ==
    (IF ScanDir(top) = <<>> THEN <<>> ELSE WalkInto(top, ScanDir(top)[1].dirs))
    \o Tail(todo)

\* the locals of list_resources during its walks (app.py:594-598), and the
\* directories os.walk has still to read
WalkFrame(req, pc, dirs_to_walk) ==
    [pc |-> pc, req |-> req, dirs_to_walk |-> dirs_to_walk,
     todo |-> dirs_to_walk, total_items |-> 0,
     resources |-> <<>>, processed |-> 0, progress_updates |-> <<>>]

\* list_resources up to its first walk (app.py:592-605)
EnterListResources(req) ==
    LET given == req.path # None /\ req.path # <<>>
        dir_norm == normalize_path(req.path)
        dirs_to_walk == IF given THEN <<dir_norm>> ELSE ExistingRoots(allowed_dirs)
    IN  IF given /\ (~is_allowed_path(dir_norm) \/ ~isdir(dir_norm))
        THEN DoneFrame(req, ErrorDict("NotAllowedOrNotADirectory"))
        ELSE WalkFrame(req, IF req.report_progress THEN "prepass" ELSE "walk",
                       dirs_to_walk)

\* one directory read of the pre-pass (app.py:609-610)
PrepassRead(frame) ==
    LET top == Head(frame.todo)
    IN  [frame EXCEPT !.todo = Pending(top, frame.todo),
                      !.total_items = @ + CountItems(ScanDir(top))]

\* one directory read of the main walk and its inner loops (app.py:613-666)
MainRead(frame) ==
    LET top == Head(frame.todo)
        acc == MainWalk([resources |-> frame.resources,
                         processed |-> frame.processed,
                         progress_updates |-> frame.progress_updates,
                         raised |-> FALSE],
                        Visited(ScanDir(top)), frame.total_items,
                        frame.req.report_progress, frame.req.batch_size)
    IN  IF acc.raised
        THEN DoneFrame(frame.req, Raised("ZeroDivisionError", "batch_size"))
        ELSE [frame EXCEPT !.todo = Pending(top, frame.todo),
                           !.resources = acc.resources,
                           !.processed = acc.processed,
                           !.progress_updates = acc.progress_updates]

WalkPaths == {None, P_root, P_data, P_other, P_back, P_priv, join(P_data, N_a_txt)}

WalkRequests ==
    {Request(op, path, report_progress, b) :
        op \in {"list_directory", "list_resources"}, path \in WalkPaths,
        report_progress \in BOOLEAN, b \in BatchSizes}

WalkInit ==
    /\ os_name = "posix"
    /\ fs = FS
    /\ cwd = P_root
    /\ allowed_dirs \in {<<P_other>>, <<P_data, P_back>>, <<P_root>>}
    /\ allowed_extensions = <<<<".","t","x","t">>>>
    /\ call = IdleFrame

\* a call is made; the function runs up to its first loop
WalkBegin ==
    /\ call.pc = "idle"
    /\ \E req \in WalkRequests :
         call' = IF req.op = "list_directory"
                 THEN BeginListDirectory(req)
                 ELSE EnterListResources(req)
    /\ UNCHANGED <<host, cwd, allowed_dirs, allowed_extensions>>

\* the pre-pass reads one directory
WalkPrepass ==
    /\ call.pc = "prepass"
    /\ Len(call.todo) > 0
    /\ Len(Segments(Head(call.todo))) <= MaxDepth
    /\ call' = PrepassRead(call)
    /\ UNCHANGED <<host, cwd, allowed_dirs, allowed_extensions>>

\* the pre-pass is over; the main walk starts from the base directories
WalkPrepassDone ==
    /\ call.pc = "prepass"
    /\ Len(call.todo) = 0
    /\ call' = [call EXCEPT !.pc = "walk", !.todo = call.dirs_to_walk]
    /\ UNCHANGED <<host, cwd, allowed_dirs, allowed_extensions>>

\* the main walk reads one directory and visits its entries
WalkMain ==
    /\ call.pc = "walk"
    /\ Len(call.todo) > 0
    /\ Len(Segments(Head(call.todo))) <= MaxDepth
    /\ call' = MainRead(call)
    /\ UNCHANGED <<host, cwd, allowed_dirs, allowed_extensions>>

\* the main walk is over; list_resources returns
WalkReturn ==
    /\ call.pc = "walk"
    /\ Len(call.todo) = 0
    /\ call' = FinishListResources(call)
    /\ UNCHANGED <<host, cwd, allowed_dirs, allowed_extensions>>

\* one iteration of the loop of list_directory
DirStep ==
    /\ call.pc = "loop"
    /\ Len(call.items) > 0
    /\ call' = StepListDirectory(call)
    /\ UNCHANGED <<host, cwd, allowed_dirs, allowed_extensions>>

\* the loop of list_directory is over; the function returns
DirReturn ==
    /\ call.pc = "loop"
    /\ Len(call.items) = 0
    /\ call' = FinishListDirectory(call)
    /\ UNCHANGED <<host, cwd, allowed_dirs, allowed_extensions>>

\* the caller receives the result
WalkDeliver ==
    /\ call.pc = "done"
    /\ call' = IdleFrame
    /\ UNCHANGED <<host, cwd, allowed_dirs, allowed_extensions>>

\* the steps of a call that leave a loop
Returning ==
    \/ WalkPrepassDone
    \/ WalkReturn
    \/ DirReturn

\* the steps of a call that read a directory
Reading ==
    \/ WalkPrepass
    \/ WalkMain

WalkNext ==
    \/ WalkBegin
    \/ Reading
    \/ DirStep
    \/ Returning
    \/ WalkDeliver

WalkSpec == WalkInit /\ [][WalkNext]_vars

\* a directory read can be taken: ENABLED <<Reading>>_vars, written out as
\* a predicate on the frame
ReadingEnabled ==
    /\ call.pc \in {"prepass", "walk"}
    /\ Len(call.todo) > 0
    /\ Len(Segments(Head(call.todo))) <= MaxDepth

\* an iteration of list_directory can be taken: ENABLED <<DirStep>>_vars
DirStepEnabled ==
    /\ call.pc = "loop"
    /\ Len(call.items) > 0

\* the interpreter keeps running the function that was called: no step of
\* a call is put off for ever.  Weak fairness of Returning, of Reading and
\* of DirStep, the latter two with their enabling conditions written out as
\* ReadingEnabled and DirStepEnabled.
FairWalkSpec ==
    /\ WalkSpec
    /\ WF_vars(Returning)
    /\ ([]<>~ReadingEnabled \/ []<><<Reading>>_vars)
    /\ ([]<>~DirStepEnabled \/ []<><<DirStep>>_vars)

----------------------------------------------------------------------------
(* The checkpoints of the listings, step by step, over the filesystem FS   *)
(* and over filesystems with one directory of MidEntries or of MaxEntries  *)
(* files.  The loop of list_directory over a directory of more than        *)
(* MaxSteps entries is followed for its first MaxSteps iterations.         *)

P_big == <<"/","b","i","g">>

DigitChars == <<"0","1","2","3","4","5","6","7","8","9">>

\* str(i)
RECURSIVE Decimal(_)
Decimal(i) ==
    IF i < 10 THEN <<DigitChars[i + 1]>>
    ELSE Decimal(i \div 10) \o <<DigitChars[(i % 10) + 1]>>

\* a filesystem that holds the directory /big with n empty files
LargeFS(n) ==
    <<Dir(P_root, Tail(P_big))>>
    \o [i \in 1..n |-> File(P_big, Decimal(i), <<>>, TRUE)]

\* os.listdir("/big") on that filesystem
LargeListing == [i \in 1..(Len(fs) - 1) |-> fs[i + 1].name]

ProgressInit ==
    /\ os_name = "posix"
    /\ cwd = P_root
    /\ \/ fs = FS /\ allowed_dirs \in {<<P_data>>, <<P_data, P_sub>>, <<P_root>>}
       \/ fs \in {LargeFS(MidEntries), LargeFS(MaxEntries)}
          /\ allowed_dirs = <<P_big>>
    /\ allowed_extensions = <<<<".","t","x","t">>>>
    /\ call = IdleFrame

\* a call of list_directory or list_resources on FS
ProgressBegin ==
    /\ fs = FS
    /\ WalkBegin

\* list_directory("/big", True, batch_size) up to its loop (app.py:412-456)
LargeBegin ==
    /\ call.pc = "idle"
    /\ fs # FS
    /\ is_allowed_path(normalize_path(P_big))
    /\ isdir(normalize_path(P_big))
    /\ CanRead(normalize_path(P_big))
    /\ \E b \in 1..MaxBatch :
         call' = LoopFrame(Request("list_directory", P_big, TRUE, b),
                           LargeListing, LargeListing, Len(LargeListing))
    /\ UNCHANGED <<host, cwd, allowed_dirs, allowed_extensions>>

\* one iteration of the loop of list_directory
ProgressStep ==
    /\ call.pc = "loop"
    /\ Len(call.items) > 0
    /\ call.total_items <= MaxSteps \/ call.processed < MaxSteps
    /\ call' = StepListDirectory(call)
    /\ UNCHANGED <<host, cwd, allowed_dirs, allowed_extensions>>

ProgressNext ==
    \/ ProgressBegin
    \/ LargeBegin
    \/ Reading
    \/ WalkPrepassDone
    \/ WalkReturn
    \/ ProgressStep
    \/ DirReturn
    \/ WalkDeliver

ProgressSpec == ProgressInit /\ [][ProgressNext]_vars

----------------------------------------------------------------------------
(* The path functions on their own: normalize_path and is_allowed_path     *)
(* applied to every string over a small alphabet, under small root lists.  *)

PathAlphabet == {SLASH, BACKSLASH, DOT, "a", "b"}

\* every string of at most MaxLen characters
PathStrings == UNION {[1..n -> PathAlphabet] : n \in 0..MaxLen}

Q_a == <<"/","a">>
Q_ab == <<"/","a","/","b">>

PathCwds == {P_root, Q_a}

PathRootConfigs == {
    <<>>,
    <<Q_a>>,
    <<Q_ab>>,
    <<<<"a",BACKSLASH,"b">>, <<"/","b","/">>>>,
    <<<<"/","/","a">>>>
}

PathInit ==
    /\ os_name = "posix"
    /\ fs = FS
    /\ cwd \in PathCwds
    /\ \E raw \in PathRootConfigs : allowed_dirs = LoadDirs(raw, cwd)
    /\ allowed_extensions = <<>>
    /\ call = Idle

\* normalize_path(path)
PathNormalize ==
    /\ call = Idle
    /\ \E path \in PathStrings :
         call' = [op |-> "normalize_path", path |-> path,
                  result |-> normalize_path(path)]
    /\ UNCHANGED <<host, cwd, allowed_dirs, allowed_extensions>>

\* is_allowed_path(path) on the string as written (test_functions.py:25)
PathIsAllowed ==
    /\ call = Idle
    /\ \E path \in PathStrings :
         call' = [op |-> "is_allowed_path", path |-> path,
                  result |-> is_allowed_path(path)]
    /\ UNCHANGED <<host, cwd, allowed_dirs, allowed_extensions>>

\* the preamble of every tool: normalize, then is_allowed_path(normalized)
\* (app.py:416-419, 558-561, 600-601, 693-694, 739-740)
PathGuard ==
    /\ call = Idle
    /\ \E path \in PathStrings :
         call' = [op |-> "guard", path |-> path,
                  normalized |-> normalize_path(path),
                  result |-> is_allowed_path(normalize_path(path))]
    /\ UNCHANGED <<host, cwd, allowed_dirs, allowed_extensions>>

PathNext ==
    \/ PathNormalize
    \/ PathIsAllowed
    \/ PathGuard
    \/ Return

PathSpec == PathInit /\ [][PathNext]_vars

----------------------------------------------------------------------------
(* The guard on both kinds of host.  The paths are built from a prefix     *)
(* (none, a separator, two separators, a drive with a separator) and at    *)
(* most two names that differ in letter case or end in a period.           *)

HostNames == {"posix", "nt"}

\* os.getcwd() on each host
CaseCwd(os) == IF os = "nt" THEN <<"C", COLON, BACKSLASH, "a">> ELSE <<SLASH, "a">>

CaseNames == {<<"a">>, <<"A">>, <<"b">>, <<"B">>, <<"B", DOT>>, DOTDOT}
CasePrefixes ==
    {<<>>, <<SLASH>>, <<SLASH, SLASH>>, <<"C", COLON, SLASH>>, <<"c", COLON, BACKSLASH>>}
CaseBodies ==
    {<<>>} \cup CaseNames
    \cup {x \o <<sep>> \o y : x \in CaseNames, y \in CaseNames, sep \in {SLASH, BACKSLASH}}

CasePaths == {pre \o body : pre \in CasePrefixes, body \in CaseBodies}

CaseRootConfigs == {
    <<>>,
    <<<<SLASH, "a">>>>,
    <<<<"C", COLON, SLASH, "A">>>>,
    <<<<SLASH, "a", SLASH, "B">>, <<"b">>>>,
    <<<<SLASH>>>>
}

CaseInit ==
    /\ os_name \in HostNames
    /\ fs = FS
    /\ cwd = CaseCwd(os_name)
    /\ \E raw \in CaseRootConfigs : allowed_dirs = LoadDirs(raw, cwd)
    /\ allowed_extensions = <<>>
    /\ call = Idle

\* is_allowed_path(path)
CaseIsAllowed ==
    /\ call = Idle
    /\ \E path \in CasePaths :
         call' = [op |-> "is_allowed_path", path |-> path,
                  normalized |-> normalize_path(path),
                  result |-> is_allowed_path(path)]
    /\ UNCHANGED <<host, cwd, allowed_dirs, allowed_extensions>>

CaseNext ==
    \/ CaseIsAllowed
    \/ Return

CaseSpec == CaseInit /\ [][CaseNext]_vars

----------------------------------------------------------------------------
(* Containment by path segments, the policy the guard is measured against  *)

\* p is root or lies below it: same anchor ("/" or "//"), and the segment
\* list of root is a prefix of the segment list of p
Contains(root, p) ==
    /\ InitialSlashes(root) = InitialSlashes(p)
    /\ StartsWith(Segments(p), Segments(root))

InSomeRoot(p) == \E i \in 1..Len(allowed_dirs) : Contains(allowed_dirs[i], p)

\* p starts with the characters of some root
SharesRawPrefix(p) ==
    \E i \in 1..Len(allowed_dirs) : StartsWith(p, allowed_dirs[i])

----------------------------------------------------------------------------
(* Helpers of the properties                                               *)

HasBackslash(s) == \E i \in 1..Len(s) : s[i] = BACKSLASH

IsSeparator(c) == c = SLASH \/ c = BACKSLASH

\* the strings that differ from s only in which separator is written where
SeparatorVariants(s) ==
    LET seps == {i \in 1..Len(s) : IsSeparator(s[i])}
    IN  {[i \in 1..Len(s) |->
            IF i \in seps THEN (IF i \in fwd THEN SLASH ELSE BACKSLASH)
            ELSE s[i]] : fwd \in SUBSET seps}

\* the value of one base64 character
B64Value(c) == (CHOOSE i \in 1..Len(B64Chars) : B64Chars[i] = c) - 1

\* base64 decoding of a padded base64 text
RECURSIVE b64decode(_)
b64decode(text) ==
    IF Len(text) < 4 THEN <<>>
    ELSE LET v1 == B64Value(text[1])
             v2 == B64Value(text[2])
         IN  IF text[3] = B64Pad
             THEN <<v1 * 4 + (v2 \div 16)>>
             ELSE LET v3 == B64Value(text[3])
                  IN  IF text[4] = B64Pad
                      THEN <<v1 * 4 + (v2 \div 16), (v2 % 16) * 16 + (v3 \div 4)>>
                      ELSE <<v1 * 4 + (v2 \div 16), (v2 % 16) * 16 + (v3 \div 4),
                             (v3 % 4) * 64 + B64Value(text[4])>>
                           \o b64decode(SubSeq(text, 5, Len(text)))

\* the descriptors a list_resources result carries, in either return shape
ResourcesOf(result) ==
    IF "contents" \in DOMAIN result THEN result.contents ELSE result.list

IsRead == call.op \in {"read_file", "read_file_binary"}
IsProgressListing ==
    /\ call.op \in {"list_directory", "list_resources"}
    /\ call.report_progress
    /\ call.result.status = "ok"

F_a_bin == join(P_data, N_a_bin)
EXT_txt == <<".","t","x","t">>
EXT_bin == <<".","b","i","n">>

----------------------------------------------------------------------------
(* C1 *)

\* C1: is_allowed_path denies every path that only shares a raw string
\* prefix with a configured root: when the normalized path starts with the
\* characters of a root but lies in no root segment-wise (root /a, path
\* /ab), is_allowed_path returns false.
C1_SiblingDenied ==
    call.op = "is_allowed_path" =>
        LET p == normalize_path(call.path)
        IN  (SharesRawPrefix(p) /\ ~InSomeRoot(p)) => call.result = FALSE

----------------------------------------------------------------------------
(* C2 *)

\* C2: no call of list_directory, read_file, read_file_binary, get_resource
\* or list_resources returns a success result for a target that is neither
\* a configured root nor a segment-wise descendant of one, and no file
\* content is returned for a file whose lowercased extension is not in the
\* configured set.
C2_Containment ==
    /\ (/\ call.op \in {"list_directory", "read_file", "read_file_binary",
                        "get_resource"}
        /\ call.result.status = "ok")
       => InSomeRoot(normalize_path(call.path))
    /\ (call.op = "list_resources" /\ call.result.status = "ok")
       => /\ (call.path # None /\ call.path # <<>>)
             => InSomeRoot(normalize_path(call.path))
          /\ \A i \in 1..Len(ResourcesOf(call.result)) :
                InSomeRoot(ResourcesOf(call.result)[i].path)
    /\ (IsRead /\ call.result.status = "ok")
       => InExtensions(Lower(splitext_ext(normalize_path(call.path))))

----------------------------------------------------------------------------
(* C3 *)

\* C3: a path that is a configured root, or whose segments extend the
\* segments of a configured root, is allowed after normalization, whichever
\* separators it was written with.
C3_DescendantsAllowed ==
    call.op = "guard" =>
        (InSomeRoot(call.normalized) => call.result = TRUE)

\* a path written with a backslash that lies strictly below a root was
\* normalized and allowed
C3_Witness ==
    /\ call.op = "guard"
    /\ HasBackslash(call.path)
    /\ InSomeRoot(call.normalized)
    /\ \A i \in 1..Len(allowed_dirs) : allowed_dirs[i] # call.normalized
    /\ call.result = TRUE

----------------------------------------------------------------------------
(* C4 *)

\* the outcome the ordered checks give for normalized path n: the reason of
\* the first check that fails, then of a failing read, else "ok"
C4_Outcome(n) ==
    IF ~is_allowed_path(n) THEN "AccessDenied"
    ELSE IF ~isfile(n) THEN "NotAFile"
    ELSE IF ~InExtensions(Lower(splitext_ext(basename(n)))) THEN "DisallowedExtension"
    ELSE IF ~EntryAt(n).readable THEN "ReadError"
    ELSE "ok"

\* the result carries the whole content of the file with bytes b
C4_WholeContent(b) ==
    IF call.op = "read_file"
    THEN /\ call.result.text = read_text(b)
         /\ (\A i \in 1..Len(b) : b[i] < 128 /\ b[i] # 13) => call.result.text = b
    ELSE b64decode(call.result.content_base64) = b

\* C4 (as amended): read_file and read_file_binary decide their outcome by
\* the same ordered checks on the normalized path: not allowed ->
\* AccessDenied; else not a regular file -> NotAFile; else extension not in
\* the configured set -> DisallowedExtension, whatever the content; else,
\* when the file cannot be read, a read failure; else success with the
\* whole content.  The first failing check gives the reason, and the call
\* succeeds iff the three checks pass and the read itself does not fail.
C4_OrderedChecks ==
    IsRead =>
        LET n == normalize_path(call.path)
        IN  IF C4_Outcome(n) = "ok"
            THEN call.result.status = "ok" /\ C4_WholeContent(EntryAt(n).bytes)
            ELSE call.result.status # "ok" /\ call.result.reason = C4_Outcome(n)

\* read_file refused a file inside a root for its extension alone, though
\* the root is allowed and the file exists
C4_Witness ==
    /\ call.op = "read_file"
    /\ normalize_path(call.path) = F_a_bin
    /\ is_allowed_path(F_a_bin)
    /\ call.result.status = "raised"
    /\ call.result.reason = "DisallowedExtension"

\* C4 as first stated: the call succeeds iff the three checks (allowed,
\* regular file, permitted extension) pass, with the first failing check
\* as the reported reason.
C4_SucceedsIffChecksPass ==
    IsRead =>
        LET n == normalize_path(call.path)
            passed == /\ is_allowed_path(n)
                      /\ isfile(n)
                      /\ InExtensions(Lower(splitext_ext(basename(n))))
        IN  /\ (call.result.status = "ok") <=> passed
            /\ ~passed => call.result.reason = C4_Outcome(n)

----------------------------------------------------------------------------
(* C5 *)

C5_Scenario(extensions) ==
    /\ allowed_dirs = <<P_data>>
    /\ allowed_extensions = extensions
    /\ normalize_path(call.path) = F_a_bin

\* C5 (as amended): with roots=[/data] and extensions=[.txt],
\* read_file_binary("/data/a.bin") fails with DisallowedExtension, as
\* read_file("/data/a.bin") does; with .bin among the configured extensions
\* read_file_binary returns a success result whose content_base64 decodes
\* to exactly the bytes of the file.
C5_BinaryRead ==
    /\ (IsRead /\ C5_Scenario(<<EXT_txt>>))
       => /\ call.result.status # "ok"
          /\ call.result.reason = "DisallowedExtension"
    /\ (call.op = "read_file_binary" /\ C5_Scenario(<<EXT_txt, EXT_bin>>))
       => /\ call.result.status = "ok"
          /\ call.result.encoding = "base64"
          /\ b64decode(call.result.content_base64) = B_bin

\* read_file_binary returned the bytes of /data/a.bin under roots=[/data],
\* extensions=[.txt, .bin]
C5_Witness ==
    /\ call.op = "read_file_binary"
    /\ C5_Scenario(<<EXT_txt, EXT_bin>>)
    /\ call.result.status = "ok"
    /\ Len(call.result.content_base64) = 8

\* C5 as first stated: with roots=[/data] and extensions=[.txt],
\* read_file_binary("/data/a.bin") succeeds and its content_base64 decodes
\* to the bytes of the file.
C5_BinaryIgnoresExtensions ==
    (call.op = "read_file_binary" /\ C5_Scenario(<<EXT_txt>>))
    => /\ call.result.status = "ok"
       /\ b64decode(call.result.content_base64) = B_bin

----------------------------------------------------------------------------
(* C6 *)

\* C6: with an empty root list every is_allowed_path call returns false,
\* and init reports an error with an empty list of accessible roots.
C6_EmptyRoots ==
    allowed_dirs = <<>> =>
        /\ call.op = "is_allowed_path" => call.result = FALSE
        /\ call.op = "init"
           => /\ call.result.isError = TRUE
              /\ call.result.accessible_dirs = <<>>

\* init was called on a server with no roots but with extensions configured
C6_Witness ==
    /\ allowed_dirs = <<>>
    /\ allowed_extensions # <<>>
    /\ call.op = "init"
    /\ call.result.isError

----------------------------------------------------------------------------
(* C7 *)

\* C7: normalize_path is idempotent and separator-invariant: normalizing a
\* normalized path changes nothing, the result holds no backslash, and
\* every string that differs from the input only in its separators
\* normalizes to the same result.
C7_NormalizeIdempotent ==
    call.op = "normalize_path" =>
        /\ normalize_path(call.result) = call.result
        /\ ~HasBackslash(call.result)
        /\ \A other \in SeparatorVariants(call.path) :
              normalize_path(other) = call.result

\* a relative path with a backslash and a ".." segment was normalized
C7_Witness ==
    /\ call.op = "normalize_path"
    /\ HasBackslash(call.path)
    /\ \E i \in 1..(Len(call.path) - 1) : call.path[i] = DOT /\ call.path[i + 1] = DOT
    /\ call.result # Replace(call.path, BACKSLASH, SLASH)
    /\ Cardinality(SeparatorVariants(call.path)) > 1

----------------------------------------------------------------------------
(* C8 *)

\* the directories a list_resources call walks
C8_Walked ==
    IF call.path # None /\ call.path # <<>>
    THEN <<normalize_path(call.path)>>
    ELSE ExistingRoots(allowed_dirs)

\* the entries of the filesystem strictly below a walked directory
C8_Tree ==
    {i \in 1..Len(fs) :
        \E k \in 1..Len(C8_Walked) :
            /\ Contains(Resolve(C8_Walked[k]), EntryPath(fs[i]))
            /\ EntryPath(fs[i]) # Resolve(C8_Walked[k])}

\* the tree holds files and listable directories only, all of them inside
\* a root, the files with a permitted extension
C8_AllAllowed ==
    \A i \in C8_Tree :
        /\ fs[i].kind \in {"file", "dir"}
        /\ fs[i].kind = "dir" => fs[i].readable
        /\ InSomeRoot(EntryPath(fs[i]))
        /\ fs[i].kind = "file" => InExtensions(Lower(splitext_ext(fs[i].name)))

\* C8: list_resources over a tree of N files and M directories, all
\* allowed, returns exactly N+M descriptors with pairwise different ids,
\* for a requested directory and for the walk of all configured roots.
C8_CountAndUniqueIds ==
    (call.op = "list_resources" /\ call.result.status = "ok" /\ C8_AllAllowed)
    => LET resources == ResourcesOf(call.result)
       IN  /\ Len(resources) = Cardinality(C8_Tree)
           /\ \A i, j \in 1..Len(resources) :
                 i # j => resources[i].id # resources[j].id

----------------------------------------------------------------------------
(* C9 *)

\* C9: in every successful progress-mode call of list_directory and of
\* list_resources the checkpoints are strictly increasing in processed,
\* and the processed of the last checkpoint is the returned item count.
C9_CheckpointsReachTotal ==
    IsProgressListing =>
        LET updates == call.result.progress_updates
        IN  /\ \A i, j \in 1..Len(updates) :
                  i < j => updates[i].processed < updates[j].processed
            /\ Len(updates) > 0
               => updates[Len(updates)].processed = call.result.total_items

----------------------------------------------------------------------------
(* C10 *)

\* C10: in progress mode the processed values of the returned checkpoints
\* are exactly the positive multiples of batch_size up to the final item
\* count, together with the final item count itself.
C10_CheckpointSchedule ==
    IsProgressListing =>
        LET updates == call.result.progress_updates
            total == call.result.total_items
        IN  {updates[i].processed : i \in 1..Len(updates)}
            = {k \in 1..total : k = total \/ k % call.batch_size = 0}

----------------------------------------------------------------------------
(* C11 *)

IsOperation ==
    call.op \in {"init", "list_directory", "read_file", "read_file_binary",
                 "list_resources", "get_resource"}

\* C11: no call of init, list_directory, read_file, read_file_binary,
\* list_resources or get_resource ends with an exception leaving the
\* operation: every failure is a returned error value, for every path and
\* every batch_size, zero included.
C11_StructuredFailures ==
    IsOperation => call.result.status # "raised"

----------------------------------------------------------------------------
(* C12 *)

\* the elements of a sequence
Range(s) == {s[i] : i \in 1..Len(s)}

\* C12: init puts every configured root in exactly one of accessible_dirs
\* and inaccessible_dirs, in accessible_dirs iff the root exists, is a
\* directory and can be listed; and init reports no error iff
\* inaccessible_dirs is empty and there is at least one root.
C12_InitItemizesRoots ==
    call.op = "init" =>
        LET accessible == Range(call.result.accessible_dirs)
            inaccessible == Range(call.result.inaccessible_dirs)
        IN  /\ \A root \in Range(allowed_dirs) :
                  /\ (root \in accessible) # (root \in inaccessible)
                  /\ root \in accessible
                     <=> (exists(root) /\ isdir(root) /\ CanRead(root))
            /\ ~call.result.isError
               <=> (inaccessible = {} /\ Len(allowed_dirs) > 0)

----------------------------------------------------------------------------
(* C13 *)

\* the final segment of a normalized path ("" for the top directory)
LastSegment(p) ==
    IF Len(Segments(p)) = 0 THEN <<>> ELSE Segments(p)[Len(Segments(p))]

\* the kind of the entry at normalized path p, "none" when os.stat fails
KindAt(p) == EntryAt(p).kind

\* the lowercased extension of the entry name, with its dot, is configured
ExtensionPermitted(p) ==
    Lower(splitext_ext(LastSegment(p))) \in Range(allowed_extensions)

C13_Descriptor(r, p, type, actions) ==
    /\ r.status = "ok"
    /\ r.type = type
    /\ Range(r.actions) = actions
    /\ Len(r.actions) = Cardinality(actions)
    /\ r.id = p
    /\ r.path = p
    /\ r.name = LastSegment(p)

\* C13: on an allowed normalized path get_resource answers by the first
\* matching step: no entry -> not-found failure; directory -> descriptor
\* of type directory with actions {list} and empty metadata; regular file
\* with an extension outside the configured set -> DisallowedExtension
\* failure; regular file with a permitted extension -> descriptor of type
\* file with actions {read, read_binary}; anything else -> failure.  id and
\* path of a descriptor are the normalized path, name its final segment.
C13_Classification ==
    (call.op = "get_resource" /\ is_allowed_path(normalize_path(call.path)))
    => LET p == normalize_path(call.path)
           r == call.result
       IN  CASE KindAt(p) = "none" ->
                  r.status = "error" /\ r.reason = "NotFound"
             [] KindAt(p) = "dir" ->
                  /\ C13_Descriptor(r, p, "directory", {"list"})
                  /\ r.metadata = <<>>
             [] KindAt(p) = "file" /\ ~ExtensionPermitted(p) ->
                  r.status = "error" /\ r.reason = "DisallowedExtension"
             [] KindAt(p) = "file" /\ ExtensionPermitted(p) ->
                  /\ C13_Descriptor(r, p, "file", {"read", "read_binary"})
                  /\ r.metadata.size = Len(EntryAt(p).bytes)
             [] OTHER -> r.status = "error"

\* get_resource has classified a directory, a file with a permitted and a
\* file with a refused extension, a missing path or a special file
C13_Witness ==
    /\ call.op = "get_resource"
    /\ is_allowed_path(normalize_path(call.path))
    /\ KindAt(normalize_path(call.path)) = "file"
    /\ ExtensionPermitted(normalize_path(call.path))
    /\ call.result.status = "ok"
    /\ call.result.type = "file"

----------------------------------------------------------------------------
(* C14 *)

\* whether the caller of list_resources named a directory; None and the
\* empty string both stand for "no directory"
PathGiven == call.path # None /\ call.path # <<>>

\* the directories the claims say a list_resources call enumerates
EnumeratedRoots ==
    IF PathGiven THEN <<normalize_path(call.path)>> ELSE allowed_dirs

\* the entries of the filesystem that lie below the directory top and can
\* be reached: every directory on the way can be searched
Below(top) ==
    {i \in 1..Len(fs) :
        /\ Visible(EntryPath(fs[i]))
        /\ Contains(Resolve(top), EntryPath(fs[i]))
        /\ EntryPath(fs[i]) # Resolve(top)}

\* the path of entry i below top, as a path that starts with top
PathFrom(top, i) ==
    join(top, IF Resolve(top) = P_root THEN Tail(EntryPath(fs[i]))
              ELSE SubSeq(EntryPath(fs[i]), Len(Resolve(top)) + 2,
                          Len(EntryPath(fs[i]))))

\* the paths of the entries below the enumerated directories
ReachableBelow ==
    UNION {{PathFrom(EnumeratedRoots[k], i) : i \in Below(EnumeratedRoots[k])}
           : k \in 1..Len(EnumeratedRoots)}

\* of these, the allowed directories and the allowed entries that are not
\* directories (what the walk reports as files) with a permitted extension
C14_Expected ==
    {q \in ReachableBelow :
        /\ is_allowed_path(q)
        /\ KindAt(q) # "dir" => ExtensionPermitted(q)}

\* C14: the descriptors list_resources returns are exactly the allowed
\* subdirectories below the walked roots and the allowed files below them
\* whose lowercased extension is configured: no file with another
\* extension, no path is_allowed_path rejects, and every allowed directory.
C14_GuardAndFilter ==
    (call.op = "list_resources" /\ call.result.status = "ok")
    => LET resources == ResourcesOf(call.result)
       IN  /\ {resources[j].id : j \in 1..Len(resources)} = C14_Expected
           /\ \A j \in 1..Len(resources) :
                 /\ resources[j].path = resources[j].id
                 /\ resources[j].type = "directory"
                    <=> KindAt(resources[j].id) = "dir"

\* a walk that returned a file and a directory and left out a file whose
\* extension is not configured
C14_Witness ==
    /\ call.op = "list_resources"
    /\ call.result.status = "ok"
    /\ \E q \in ReachableBelow :
          KindAt(q) = "file" /\ ~ExtensionPermitted(q)
    /\ \E j \in 1..Len(ResourcesOf(call.result)) :
          ResourcesOf(call.result)[j].type = "file"
    /\ \E j \in 1..Len(ResourcesOf(call.result)) :
          ResourcesOf(call.result)[j].type = "directory"

----------------------------------------------------------------------------
(* C15 *)

\* the directories at or below an enumerated directory whose read fails
FailedNodes ==
    {EntryPath(fs[i]) : i \in
        {i \in 1..Len(fs) :
            /\ fs[i].kind = "dir"
            /\ ~fs[i].readable
            /\ Visible(EntryPath(fs[i]))
            /\ \E k \in 1..Len(EnumeratedRoots) :
                  Contains(Resolve(EnumeratedRoots[k]), EntryPath(fs[i]))}}

\* the error texts a result carries for nodes of the walk: the paths named
\* in an error list of the result, if the result has one
Diagnostics(result) ==
    IF "errors" \in DOMAIN result THEN Range(result.errors) ELSE {}

\* C15: when reading a directory fails during the walk of list_resources,
\* the walk goes on, the result is a success holding every other reachable
\* entry, and the result records the error for the failed node.
C15_WalkErrorsRecorded ==
    (call.op = "list_resources" /\ call.result.status = "ok")
    => /\ C14_GuardAndFilter
       /\ \A node \in FailedNodes : node \in Diagnostics(call.result)

----------------------------------------------------------------------------
(* C16 *)

\* what list_resources returns for each configured root from the k-th on,
\* with the report_progress and batch_size of the call
C16_PerRoot(k) ==
    list_resources(allowed_dirs[k], call.report_progress, call.batch_size)

RECURSIVE C16_Descriptors(_)
C16_Descriptors(k) ==
    IF k > Len(allowed_dirs) THEN <<>>
    ELSE (IF C16_PerRoot(k).status = "ok"
          THEN ResourcesOf(C16_PerRoot(k)) ELSE <<>>)
         \o C16_Descriptors(k + 1)

C16_RefusedPath(path) ==
    \/ ~is_allowed_path(normalize_path(path))
    \/ ~isdir(normalize_path(path))

C16_Failure ==
    /\ call.result.status = "error"
    /\ "contents" \notin DOMAIN call.result
    /\ "list" \notin DOMAIN call.result

\* a call that ends as the calls on the single roots do: with their
\* descriptors, root after root, or with the exception one of them raises
C16_AsPerRoot ==
    IF \E k \in 1..Len(allowed_dirs) : C16_PerRoot(k).status = "raised"
    THEN call.result.status = "raised"
    ELSE /\ call.result.status = "ok"
         /\ ResourcesOf(call.result) = C16_Descriptors(1)

\* C16 (as amended): list_resources called without a path, or with the
\* empty string, enumerates all configured roots: its result holds the
\* descriptors list_resources(R) returns for each configured root R, and
\* nothing else; called with a non-empty path that is not allowed or is
\* not a directory it returns a failure and no descriptors.
C16_AllRootsByDefault ==
    call.op = "list_resources"
    => /\ ~PathGiven => C16_AsPerRoot
       /\ (PathGiven /\ C16_RefusedPath(call.path)) => C16_Failure

\* all roots were enumerated by default, two of them holding descriptors
C16_Witness ==
    /\ call.op = "list_resources"
    /\ ~PathGiven
    /\ call.result.status = "ok"
    /\ Len(allowed_dirs) > 1
    /\ \E k \in 1..Len(allowed_dirs) :
          /\ C16_PerRoot(k).status = "ok"
          /\ Len(ResourcesOf(C16_PerRoot(k))) > 0
          /\ Len(ResourcesOf(C16_PerRoot(k))) < Len(ResourcesOf(call.result))

\* C16: list_resources called without a path (None) enumerates all
\* configured roots as the calls on the single roots do; called with a
\* path, the empty string included, that is not allowed or is not a
\* directory it returns a failure and no descriptors.
C16_EveryPathChecked ==
    call.op = "list_resources"
    => /\ call.path = None => C16_AsPerRoot
       /\ (call.path # None /\ C16_RefusedPath(call.path)) => C16_Failure

----------------------------------------------------------------------------
(* C17 *)

\* every root is absolute, written with forward slashes and a fixed point
\* of normalize_path; every extension is lowercase
ConfigurationNormalized ==
    /\ \A root \in Range(allowed_dirs) :
          /\ Len(root) > 0
          /\ root[1] = SLASH
          /\ ~HasBackslash(root)
          /\ normalize_path(root) = root
    /\ \A ext \in Range(allowed_extensions) : Lower(ext) = ext

\* C17: no step of the server, a succeeding or failing call of any
\* operation or the delivery of its result, changes allowed_dirs or
\* allowed_extensions, and at every step each root is a normalized
\* absolute forward-slash path and each extension lowercase.
C17_ConfigurationImmutable ==
    [][/\ allowed_dirs' = allowed_dirs
       /\ allowed_extensions' = allowed_extensions
       /\ ConfigurationNormalized]_vars

\* a failed call under a configuration whose roots and extensions were
\* written with backslashes, relative or in upper case
C17_Witness ==
    /\ IsOperation
    /\ call.result.status # "ok"
    /\ Len(allowed_dirs) > 1
    /\ Len(allowed_extensions) > 1
    /\ ConfigurationNormalized

----------------------------------------------------------------------------
(* C19 *)

C19_CommandLineSet(arg) == arg.given /\ Len(arg.value) > 0

\* C19: each of the two settings is taken from the command line when its
\* command-line value is not empty, whatever the configuration file holds;
\* otherwise from the configuration file; and when the file is missing or
\* cannot be read the setting is empty and loading still completes.
C19_Precedence ==
    call.op = "load_configuration"
    => /\ C19_CommandLineSet(call.args_dirs)
          => allowed_dirs = LoadDirs(call.args_dirs.value, cwd)
       /\ ~C19_CommandLineSet(call.args_dirs)
          => allowed_dirs = IF call.file.state = "ok"
                            THEN LoadDirs(call.file.allowed_dirs, cwd)
                            ELSE <<>>
       /\ C19_CommandLineSet(call.args_extensions)
          => allowed_extensions = LoadExtensions(call.args_extensions.value)
       /\ ~C19_CommandLineSet(call.args_extensions)
          => allowed_extensions
             = IF call.file.state = "ok"
               THEN LoadExtensions(call.file.allowed_extensions)
               ELSE <<>>

\* roots given on the command line and in the file, extensions in the file
\* only: the roots of the command line and the extensions of the file
C19_Witness ==
    /\ call.op = "load_configuration"
    /\ C19_CommandLineSet(call.args_dirs)
    /\ ~C19_CommandLineSet(call.args_extensions)
    /\ call.file.state = "ok"
    /\ Len(call.file.allowed_dirs) > 0
    /\ LoadDirs(call.file.allowed_dirs, cwd) # allowed_dirs
    /\ Len(allowed_extensions) > 0

----------------------------------------------------------------------------
(* C20 *)

\* the path as written holds a "." or ".." segment
HasDotSegment(path) ==
    \E segment \in Range(Split(Replace(path, BACKSLASH, SLASH), SLASH)) :
        segment = <<DOT>> \/ segment = DOTDOT

\* a call of one of the five operations on a path
IsPathOperation ==
    \/ call.op \in {"list_directory", "read_file", "read_file_binary",
                     "get_resource"}
    \/ call.op = "list_resources" /\ PathGiven

\* the call failed and names the access check as the reason
AccessRefused ==
    /\ call.result.status # "ok"
    /\ call.result.reason \in {"AccessDenied", "NotAllowedOrNotADirectory"}

\* C20: each of list_directory, read_file, read_file_binary, get_resource
\* and list_resources decides access on the resolved path: a path written
\* with "." or ".." segments is refused when it resolves to a place outside
\* every root (it left the root through ".."), and passes the access check
\* when it resolves to a place inside a root.
C20_ResolvedPathDecides ==
    (IsPathOperation /\ HasDotSegment(call.path))
    => LET p == normalize_path(call.path)
       IN  /\ ~InSomeRoot(p) => AccessRefused
           /\ InSomeRoot(p)
              => /\ call.result.status # "ok"
                    => call.result.reason # "AccessDenied"
                 /\ (call.op = "list_resources" /\ isdir(p))
                    => call.result.status # "error"

----------------------------------------------------------------------------
(* C18 *)

\* what the call returns when it is the only call being served
RunAlone(req) ==
    CASE req.op = "list_directory" ->
           list_directory(req.path, req.report_progress, req.batch_size)
      [] req.op = "list_resources" ->
           list_resources(req.path, req.report_progress, req.batch_size)
      [] req.op = "read_file" -> read_file(req.path)
      [] req.op = "get_resource" -> get_resource(req.path)

\* C18: whatever the interleaving of the steps of the calls being served,
\* every call returns what it returns when run alone: the same entries, the
\* same item count and the same checkpoints.
C18_NoInterference ==
    \A c \in Callers :
        call[c].pc = "done" => call[c].result = RunAlone(call[c].req)

\* a listing returned with several checkpoints while another listing, begun
\* before it ended, is in the middle of its loop with checkpoints of its own
C18_Witness ==
    \E c, d \in Callers :
        /\ c # d
        /\ call[c].pc = "done"
        /\ call[c].req.op \in {"list_directory", "list_resources"}
        /\ call[c].req.report_progress
        /\ call[c].result.status = "ok"
        /\ Len(call[c].result.progress_updates) > 1
        /\ call[d].pc = "loop"
        /\ Len(call[d].progress_updates) > 0
        /\ Len(call[d].items) > 0

----------------------------------------------------------------------------
(* C21 *)

\* the segment of the given path that stands where segment k of root stands
\* is the same name in another letter case
CaseDiffersAt(root, p, k) ==
    /\ k <= Len(Segments(p))
    /\ Segments(p)[k] # Segments(root)[k]
    /\ Lower(Segments(p)[k]) = Lower(Segments(root)[k])

\* p lies at or below root once letter case is ignored, and not as written
OnlyCaseApart(root, p) ==
    /\ Contains(Lower(root), Lower(p))
    /\ ~Contains(root, p)

\* C21: the comparison of is_allowed_path folds case exactly on a Windows
\* host: there a path that lies at or below a root once letter case is
\* ignored is allowed, and on any other host a path that differs from every
\* root in the letter case of one of the root's segments is denied.
C21_FoldsCaseOnNtOnly ==
    (call # Idle /\ call.op = "is_allowed_path") =>
        /\ (os_name = "nt"
            /\ \E i \in 1..Len(allowed_dirs) :
                  Contains(Lower(allowed_dirs[i]), Lower(call.normalized)))
           => call.result
        /\ (os_name # "nt"
            /\ Len(allowed_dirs) > 0
            /\ \A i \in 1..Len(allowed_dirs) :
                  \E k \in 1..Len(Segments(allowed_dirs[i])) :
                      CaseDiffersAt(allowed_dirs[i], call.normalized, k))
           => ~call.result

\* the same root list and the same kind of path on the two hosts: a path
\* below a root in another letter case, allowed on Windows
C21_Witness ==
    /\ call # Idle
    /\ call.op = "is_allowed_path"
    /\ os_name = "nt"
    /\ \E i \in 1..Len(allowed_dirs) : OnlyCaseApart(allowed_dirs[i], call.normalized)
    /\ \A i \in 1..Len(allowed_dirs) : ~StartsWith(call.normalized, allowed_dirs[i])
    /\ \E i \in 1..Len(allowed_dirs) :
          /\ Len(Segments(allowed_dirs[i])) >= 2
          /\ OnlyCaseApart(allowed_dirs[i], call.normalized)
          /\ Len(Segments(call.normalized)) > Len(Segments(allowed_dirs[i]))
    /\ call.result

\* on Windows a name written with a period at its end is the name without
\* it: such a path is allowed as the root it names in another letter case
C21_WitnessTrailingPeriod ==
    /\ call # Idle
    /\ call.op = "is_allowed_path"
    /\ os_name = "nt"
    /\ EndsWithChar(call.path, DOT)
    /\ ~EndsWithChar(call.normalized, DOT)
    /\ \E i \in 1..Len(allowed_dirs) :
          /\ Len(Segments(allowed_dirs[i])) >= 3
          /\ Lower(call.normalized) = Lower(allowed_dirs[i])
          /\ call.normalized # allowed_dirs[i]
    /\ call.result

\* ... and denied on a case-sensitive host
C21_WitnessPosix ==
    /\ call # Idle
    /\ call.op = "is_allowed_path"
    /\ os_name = "posix"
    /\ \A i \in 1..Len(allowed_dirs) :
          \E k \in 1..Len(Segments(allowed_dirs[i])) :
              CaseDiffersAt(allowed_dirs[i], call.normalized, k)
    /\ \E i \in 1..Len(allowed_dirs) : OnlyCaseApart(allowed_dirs[i], call.normalized)
    /\ ~call.result

----------------------------------------------------------------------------
(* C22 *)

\* the call being served is inside one of its loops
InCall == call.pc \in {"prepass", "walk", "loop"}

\* the step-by-step run of a call returns what the function returns
StepwiseAgrees ==
    call.pc = "done" =>
        call.result =
            IF call.req.op = "list_directory"
            THEN list_directory(call.req.path, call.req.report_progress,
                                call.req.batch_size)
            ELSE list_resources(call.req.path, call.req.report_progress,
                                call.req.batch_size)

\* no directory the walk has still to read lies deeper than MaxDepth
DepthWithinBound ==
    call.pc \in {"prepass", "walk"} =>
        \A k \in 1..Len(call.todo) : Len(Segments(call.todo[k])) <= MaxDepth

\* C22: every call of list_directory and of list_resources over the finite
\* tree, which holds a symbolic link to one of its own ancestors, returns a
\* result or a failure once the steps of the call are taken; nothing but
\* the call's own steps is needed.
C22_EveryCallReturns == InCall ~> call.pc = "done"

\* list_resources has returned from a walk that met the link back to the
\* directory it started from: the link is listed and was not walked
C22_Witness ==
    /\ call.pc = "done"
    /\ call.req.op = "list_resources"
    /\ call.req.report_progress
    /\ call.result.status = "ok"
    /\ \E k \in 1..Len(call.result.contents) :
          /\ call.result.contents[k].id = P_back
          /\ call.result.contents[k].type = "directory"
    /\ \A k \in 1..Len(call.result.contents) :
          ~StartsWith(call.result.contents[k].id, P_back \o <<SLASH>>)

----------------------------------------------------------------------------
(* C23 *)

\* what the listing the caller asked for returns with the given progress flag
Listing(report_progress) ==
    IF call.op = "list_directory"
    THEN list_directory(call.path, report_progress, call.batch_size)
    ELSE list_resources(call.path, report_progress, call.batch_size)

IsListingCall == call # Idle /\ call.op \in {"list_directory", "list_resources"}

\* the listing without progress succeeds, and with progress it returns the
\* same entries in the same order as contents
SameEntries ==
    Listing(FALSE).status = "ok" =>
        /\ Listing(TRUE).status = "ok"
        /\ Listing(TRUE).contents = Listing(FALSE).list

\* the call gave list_directory a path and nothing else
IsPathOnlyCall == IsListingCall /\ "path_only" \in DOMAIN call

\* what list_directory returns as a bare list: the entry names, or the
\* two-element error list
BareList == list_directory(call.path, FALSE, call.batch_size)

\* C23: for the same arguments list_directory and list_resources return the
\* same entries in the same order with report_progress true (as contents)
\* and false (as the bare list), for every batch_size, and list_directory
\* called with only a path returns the bare list of entry names.
C23_ProgressIsBookkeeping ==
    /\ IsListingCall => SameEntries
    /\ IsPathOnlyCall => call.result = BareList

\* the part of C23 that holds: for every batch_size of at least 1 the two
\* modes return the same entries in the same order
C23_SameEntriesFromBatchOne ==
    (IsListingCall /\ call.batch_size >= 1) => SameEntries

\* list_directory called with only the path of an allowed directory returns
\* the progress envelope
C23_PathOnlyEnvelope ==
    /\ IsPathOnlyCall
    /\ call.result.status = "ok"
    /\ "contents" \in DOMAIN call.result
    /\ "list" \notin DOMAIN call.result
    /\ call.result.contents = BareList.list
    /\ Len(call.result.contents) > 1

\* with batch_size 0 the listing without progress succeeds and the listing
\* with progress fails
C23_BatchZero ==
    /\ IsListingCall
    /\ call.batch_size = 0
    /\ Listing(FALSE).status = "ok"
    /\ Listing(TRUE).status # "ok"

----------------------------------------------------------------------------
(* C24 *)

\* C24: in every successful progress envelope of list_directory and of
\* list_resources, total_items is the number of elements of contents, and
\* final_progress is the last element of progress_updates, null exactly
\* when progress_updates is empty.
C24_EnvelopeConsistent ==
    IsProgressListing =>
        /\ call.result.total_items = Len(call.result.contents)
        /\ Len(call.result.progress_updates) > 0 =>
              /\ call.result.final_progress # NoCheckpoint
              /\ call.result.final_progress =
                    call.result.progress_updates[Len(call.result.progress_updates)]
        /\ Len(call.result.progress_updates) = 0 =>
              call.result.final_progress = NoCheckpoint

\* an envelope of list_resources with several entries and several
\* checkpoints, the last of them final_progress
C24_Witness ==
    /\ IsProgressListing
    /\ call.op = "list_resources"
    /\ Len(call.result.contents) > 2
    /\ call.result.total_items = Len(call.result.contents)
    /\ Len(call.result.progress_updates) > 1
    /\ call.result.final_progress # call.result.progress_updates[1]
    /\ call.result.final_progress =
          call.result.progress_updates[Len(call.result.progress_updates)]

\* an envelope with entries and no checkpoint: final_progress is null
C24_WitnessNull ==
    /\ IsProgressListing
    /\ Len(call.result.contents) > 0
    /\ Len(call.result.progress_updates) = 0
    /\ call.result.final_progress = NoCheckpoint

----------------------------------------------------------------------------
(* C25 *)

\* the checkpoints the call being served has emitted so far
Emitted ==
    IF call.pc \in {"walk", "loop"} THEN call.progress_updates
    ELSE IF /\ call.pc = "done"
            /\ call.req.report_progress
            /\ call.result.status = "ok"
    THEN call.result.progress_updates
    ELSE <<>>

\* the directories a call of list_resources is to enumerate
WalkedRoots(req) ==
    IF req.path # None /\ req.path # <<>>
    THEN <<normalize_path(req.path)>> ELSE allowed_dirs

\* the directories and files below these directories, one count per
\* directory named
RECURSIVE FoundBelow(_)
FoundBelow(roots) ==
    IF Len(roots) = 0 THEN 0
    ELSE Cardinality(Below(Head(roots))) + FoundBelow(Tail(roots))

\* hundredths is processed / total * 100 rounded to two decimals: no other
\* number of hundredths of a percent is nearer
RoundedPercentage(hundredths, processed, total) ==
    /\ 2 * (hundredths * total - 10000 * processed) <= total
    /\ 2 * (10000 * processed - hundredths * total) <= total

\* what holds of a checkpoint whatever the size of the listing
CheckpointSound(c) ==
    /\ 1 <= c.processed
    /\ c.processed <= c.total
    /\ c.percentage # NoPercentage
    /\ RoundedPercentage(c.percentage, c.processed, c.total)
    /\ c.percentage <= 10000
    /\ call.req.op = "list_resources" => c.total = FoundBelow(WalkedRoots(call.req))

\* C25 (as amended): in every checkpoint of list_directory and of
\* list_resources 1 <= processed <= total, and percentage is
\* processed/total*100 rounded to two decimals, which lies in [0, 100]: it
\* is 0.0 when processed/total*100 is below 0.005; in list_resources total
\* counts all directories and files of the pre-pass, filtered or not.
C25_CheckpointsRounded ==
    \A k \in 1..Len(Emitted) :
        /\ CheckpointSound(Emitted[k])
        /\ Emitted[k].percentage >= 0
        /\ Emitted[k].percentage = 0 => 20000 * Emitted[k].processed <= Emitted[k].total

\* C25 as first stated: in every checkpoint 1 <= processed <= total, and
\* percentage is processed/total*100 rounded to two decimals and lies in
\* (0, 100]; in list_resources total counts all directories and files of
\* the pre-pass.
C25_PercentagePositive ==
    \A k \in 1..Len(Emitted) :
        /\ CheckpointSound(Emitted[k])
        /\ Emitted[k].percentage > 0

\* list_resources has returned checkpoints whose total counts entries that
\* the main walk filtered out: the last checkpoint stays below 100 percent
C25_Witness ==
    /\ call.pc = "done"
    /\ call.req.op = "list_resources"
    /\ Len(Emitted) > 1
    /\ Emitted[Len(Emitted)].processed = call.result.total_items
    /\ Emitted[Len(Emitted)].total > call.result.total_items
    /\ Emitted[Len(Emitted)].total = FoundBelow(WalkedRoots(call.req))
    /\ Emitted[Len(Emitted)].percentage < 10000
    /\ Emitted[1].percentage > 0

\* the checkpoint of item 23 of 160: processed/total*100 is 14.375, the
\* float the code rounds lies just below it, and the percentage is 14.37
C25_WitnessHalfway ==
    /\ call.pc = "loop"
    /\ call.total_items = 160
    /\ Len(Emitted) = 23
    /\ Emitted[23].processed = 23
    /\ Emitted[23].percentage = 1437
    /\ 10000 * Emitted[23].processed - 1437 * Emitted[23].total = 80

\* the first checkpoint of a listing of MaxEntries entries with batch_size 1
C25_WitnessZero ==
    /\ call.pc = "loop"
    /\ call.total_items = MaxEntries
    /\ Len(Emitted) > 1
    /\ Emitted[1].processed = 1
    /\ Emitted[1].percentage = 0
    /\ Emitted[2].percentage > 0

====
